---- MODULE Spec2Model ----
(***************************************************************************)
(* The deployment driver of packages/plugins/contracts/foundry/Sphinx.sol: *)
(* sphinxSimulateProposal / sphinxDeployTask, sphinxDeployOnNetwork,       *)
(* sphinxExecuteDeployment and sphinxExecuteBatchActions, run against the  *)
(* SphinxManager and SphinxAuth contracts of one network after the other.  *)
(*                                                                         *)
(* A run of the script is one EVM simulation: nothing interleaves with it. *)
(* Every step of the model is the code up to and including one transaction *)
(* (or one early return).  A revert of an inner call rolls that call back; *)
(* a revert that reaches the script ends the run with pc = "reverted".     *)
(***************************************************************************)
EXTENDS Integers, Sequences, FiniteSets, TLC

(***************************************************************************)
(* Bounds of the model.                                                    *)
(***************************************************************************)
MaxInitial == 3
MaxSetStorage == 2
NumChains == 2

(***************************************************************************)
(* Data types.                                                             *)
(***************************************************************************)
DeploymentStatus ==
    {"EMPTY", "APPROVED", "INITIAL_ACTIONS_EXECUTED", "PROXIES_INITIATED",
     "SET_STORAGE_ACTIONS_EXECUTED", "COMPLETED", "FAILED", "CANCELLED"}

SphinxMode == {"LiveNetworkBroadcast", "LocalNetworkBroadcast", "Proposal"}

\* bytes32(0), the id of the bundle the driver executes, and the id of some
\* other deployment of the same project.
ZeroId == "0"
BundleId == "D"
OtherId == "O"
DeploymentIds == {ZeroId, BundleId, OtherId}

\* The gas hints an action can carry and the block gas limits of a network.
GasValues == {1, 3}
BlockGasLimits == {5, 10}

NoIndex == 0 - 1

EmptyState == [status |-> "EMPTY", actionsExecuted |-> 0]

\* One element of bundleInfo.actionBundle.actions.  `reverts` says whether the
\* action reverts when the manager runs it (its requireSuccess is set).
BundledAction(k, nI, g, rv) ==
    [index |-> k - 1,
     actionType |-> IF k <= nI THEN "CALL" ELSE "SET_STORAGE",
     gas |-> g,
     reverts |-> (rv = k - 1)]

ActionBundle(nI, nS, g, rv) == [k \in 1..(nI + nS) |-> BundledAction(k, nI, g, rv)]

AuthLeafs(types) == [k \in 1..Len(types) |-> [leafTypeEnum |-> types[k], index |-> k - 1]]

\* The auth leaf lists the proposal builder produces for one chain.
LeafShapes ==
    {<<"SETUP", "PROPOSE", "APPROVE_DEPLOYMENT">>,
     <<"PROPOSE", "APPROVE_DEPLOYMENT">>,
     <<"PROPOSE", "CANCEL_ACTIVE_DEPLOYMENT", "APPROVE_DEPLOYMENT">>}

\* The action inputs collected for one chain: the index is the position at
\* which the script produced the action, from 0 on.
ActionInputs(n) ==
    [k \in 1..n |-> [index |-> k - 1, decodedAction |-> <<"call", k - 1>>]]

\* The text that describes a decoded action.
prettyFunctionCall(decodedAction) == <<"pretty", decodedAction>>

\* Mutant: actionIndex is the position in the list, counted from one.
getReadableActions_PositionFromOne(actionInputs) ==
    [k \in 1..Len(actionInputs) |->
        [reason |-> prettyFunctionCall(actionInputs[k].decodedAction),
         actionIndex |-> k]]

\* getReadableActions: one readable action per action input, in order.
getReadableActions(actionInputs) ==
    [k \in 1..Len(actionInputs) |->
        [reason |-> prettyFunctionCall(actionInputs[k].decodedAction),
         actionIndex |-> actionInputs[k].index]]

\* bundleInfo.humanReadableActions of a bundle of n actions.
HumanReadableActions(n) == getReadableActions(ActionInputs(n))

BundleInfo(types, nI, nS, g, rv) ==
    [authLeafs |-> AuthLeafs(types),
     actions |-> ActionBundle(nI, nS, g, rv),
     humanReadableActions |-> HumanReadableActions(nI + nS),
     numTargets |-> IF nS > 0 THEN 1 ELSE 0,
     deploymentId |-> BundleId]

EmptyBundleInfo ==
    [authLeafs |-> <<>>, actions |-> <<>>, humanReadableActions |-> <<>>,
     numTargets |-> 0, deploymentId |-> BundleId]

NonEmptyBundles ==
    { BundleInfo(t, nI, nS, g, rv) :
        t \in LeafShapes, nI \in 1..MaxInitial, nS \in 0..MaxSetStorage,
        g \in GasValues, rv \in {NoIndex} \cup (0..(MaxInitial + MaxSetStorage - 1)) }

Bundles == {EmptyBundleInfo} \cup NonEmptyBundles

(***************************************************************************)
(* SphinxUtils (the helper contract the driver calls).                     *)
(***************************************************************************)
RECURSIVE SelectActions(_, _, _)
SelectActions(actions, keep(_), k) ==
    IF k > Len(actions) THEN <<>>
    ELSE (IF keep(actions[k]) THEN <<actions[k]>> ELSE <<>>)
         \o SelectActions(actions, keep, k + 1)

\* The actions that are not yet executed: those whose index is not below the
\* manager's actionsExecuted.
removeExecutedActions(actions, actionsExecuted) ==
    LET keep(a) == a.index >= actionsExecuted
    IN  SelectActions(actions, keep, 1)

\* (initial actions, set-storage actions), each in bundle order.
splitActions(actions) ==
    LET initial(a) == a.actionType # "SET_STORAGE"
        storage(a) == a.actionType = "SET_STORAGE"
    IN  [initialActions |-> SelectActions(actions, initial, 1),
         setStorageActions |-> SelectActions(actions, storage, 1)]

\* arr[start .. end), 0-based as in the code.
inefficientSlice(arr, start, end) == SubSeq(arr, start + 1, end)

\* The raw actions of a batch (the proofs travel with them and are not modelled).
disassembleActions(batch) == batch

getDeploymentId(bundleInfo) == bundleInfo.deploymentId

RECURSIVE SimulatedGas(_)
SimulatedGas(actions) ==
    IF Len(actions) = 0 THEN 0
    ELSE actions[1].gas + SimulatedGas(Tail(actions))

\* Mutant: the comparison with the budget is inverted.
RECURSIVE BisectBatch_Inverted(_, _, _, _)
BisectBatch_Inverted(actions, budget, lo, hi) ==
    IF lo >= hi THEN lo
    ELSE LET mid == (lo + hi + 1) \div 2
         IN  IF SimulatedGas(SubSeq(actions, 1, mid)) >= budget
             THEN BisectBatch_Inverted(actions, budget, mid, hi)
             ELSE BisectBatch_Inverted(actions, budget, lo, mid - 1)

\* Bisection over the batch size: the prefix of length lo fits, nothing above hi does.
RECURSIVE BisectBatch(_, _, _, _)
BisectBatch(actions, budget, lo, hi) ==
    IF lo >= hi THEN lo
    ELSE LET mid == (lo + hi + 1) \div 2
         IN  IF SimulatedGas(SubSeq(actions, 1, mid)) <= budget
             THEN BisectBatch(actions, budget, mid, hi)
             ELSE BisectBatch(actions, budget, lo, mid - 1)

\* Mutant: a first action that does not fit yields a batch of zero actions.
findMaxBatchSize_ZeroWhenNoneFits(actions, budget) ==
    [ok |-> TRUE, size |-> BisectBatch(actions, budget, 0, Len(actions)),
     index |-> NoIndex]

\* The largest prefix of the actions whose simulation stays within the budget;
\* it fails, naming the first action, when not even that one fits.
findMaxBatchSize(actions, budget) ==
    IF Len(actions) = 0 THEN [ok |-> TRUE, size |-> 0, index |-> NoIndex]
    ELSE LET k == BisectBatch(actions, budget, 0, Len(actions))
         IN  IF k = 0
             THEN [ok |-> FALSE, size |-> 0, index |-> actions[1].index]
             ELSE [ok |-> TRUE, size |-> k, index |-> NoIndex]

(***************************************************************************)
(* SphinxManager and SphinxAuth: the on-chain state of one network.  Every *)
(* call returns whether it succeeded, the error it reverted with, and the  *)
(* contract state after it (unchanged when it reverted).                   *)
(***************************************************************************)
Reverted(c, err, idx) == [ok |-> FALSE, err |-> err, errIndex |-> idx, chain |-> c]
Succeeded(c) == [ok |-> TRUE, err |-> "", errIndex |-> NoIndex, chain |-> c]

\* _manager.deployments(id)
deployments(c, id) == c.deployments[id]

SetDeployment(c, id, st, active) ==
    [c EXCEPT !.deployments[id] = st, !.activeDeploymentId = active]

\* The manager's loop over the actions of one batch: the actionsExecuted it
\* reaches, the index of the action that reverted (if one did), and whether an
\* action was out of order.
RECURSIVE RunActions(_, _, _)
RunActions(actionsExecuted, batch, k) ==
    IF k > Len(batch)
    THEN [actionsExecuted |-> actionsExecuted, failedIndex |-> NoIndex, invalid |-> FALSE]
    ELSE IF batch[k].index # actionsExecuted
    THEN [actionsExecuted |-> actionsExecuted, failedIndex |-> NoIndex, invalid |-> TRUE]
    ELSE IF batch[k].reverts
    THEN [actionsExecuted |-> actionsExecuted, failedIndex |-> batch[k].index, invalid |-> FALSE]
    ELSE RunActions(actionsExecuted + 1, batch, k + 1)

\* Mutant: an unfinished set-storage phase is booked under the status before it.
StatusAfterActions_StepsBack(c, fn, actionsExecuted) ==
    IF fn = "executeInitialActions"
    THEN IF actionsExecuted < c.numInitialActions THEN "APPROVED"
         ELSE IF c.numTargets = 0 THEN "COMPLETED" ELSE "INITIAL_ACTIONS_EXECUTED"
    ELSE IF actionsExecuted < c.numInitialActions + c.numSetStorageActions
         THEN "INITIAL_ACTIONS_EXECUTED" ELSE "SET_STORAGE_ACTIONS_EXECUTED"

StatusAfterActions(c, fn, actionsExecuted) ==
    IF fn = "executeInitialActions"
    THEN IF actionsExecuted < c.numInitialActions THEN "APPROVED"
         ELSE IF c.numTargets = 0 THEN "COMPLETED" ELSE "INITIAL_ACTIONS_EXECUTED"
    ELSE IF actionsExecuted < c.numInitialActions + c.numSetStorageActions
         THEN "PROXIES_INITIATED" ELSE "SET_STORAGE_ACTIONS_EXECUTED"

\* executeInitialActions and setStorage.  An action that reverts fails the
\* deployment: the manager either reverts the whole call with the index of the
\* action (failMode "revert") or records FAILED and returns (failMode "status").
ManagerExecuteActions(c, fn, batch) ==
    LET id == c.activeDeploymentId
        d == c.deployments[id]
        need == IF fn = "executeInitialActions" THEN "APPROVED" ELSE "PROXIES_INITIATED"
        wrongType == \E k \in 1..Len(batch) :
                        (batch[k].actionType = "SET_STORAGE") # (fn = "setStorage")
        r == RunActions(d.actionsExecuted, batch, 1)
        st == StatusAfterActions(c, fn, r.actionsExecuted)
    IN  IF id = ZeroId \/ d.status # need THEN Reverted(c, "InvalidDeploymentStatus", 0)
        ELSE IF id # BundleId THEN Reverted(c, "InvalidMerkleProof", 0)
        ELSE IF wrongType \/ r.invalid THEN Reverted(c, "InvalidActionIndex", 0)
        ELSE IF r.failedIndex # NoIndex
        THEN IF c.failMode = "revert"
             THEN Reverted(c, "ActionFailed", r.failedIndex)
             ELSE Succeeded(SetDeployment(c, id,
                     [status |-> "FAILED", actionsExecuted |-> r.actionsExecuted], ZeroId))
        ELSE Succeeded(SetDeployment(c, id,
                     [status |-> st, actionsExecuted |-> r.actionsExecuted],
                     IF st = "COMPLETED" THEN ZeroId ELSE id))

ManagerInitiateUpgrade(c) ==
    LET id == c.activeDeploymentId
        d == c.deployments[id]
    IN  IF id = ZeroId \/ d.status # "INITIAL_ACTIONS_EXECUTED"
        THEN Reverted(c, "InvalidDeploymentStatus", 0)
        ELSE Succeeded(SetDeployment(c, id, [d EXCEPT !.status = "PROXIES_INITIATED"], id))

ManagerFinalizeUpgrade(c) ==
    LET id == c.activeDeploymentId
        d == c.deployments[id]
    IN  IF id = ZeroId \/ d.status # "SET_STORAGE_ACTIONS_EXECUTED"
        THEN Reverted(c, "InvalidDeploymentStatus", 0)
        ELSE Succeeded(SetDeployment(c, id, [d EXCEPT !.status = "COMPLETED"], ZeroId))

ManagerClaimDeployment(c) ==
    IF c.activeDeploymentId = ZeroId THEN Reverted(c, "NoActiveDeployment", 0)
    ELSE Succeeded(c)

\* The manager's part of SphinxAuth.approveDeployment.
ManagerApprove(c, id) ==
    IF c.activeDeploymentId # ZeroId
    THEN Reverted(c, "ConflictingActiveDeployment", 0)
    ELSE Succeeded(SetDeployment(c, id, [status |-> "APPROVED", actionsExecuted |-> 0], id))

ManagerCancel(c) ==
    LET id == c.activeDeploymentId
    IN  IF id = ZeroId THEN Reverted(c, "NoActiveDeployment", 0)
        ELSE Succeeded(SetDeployment(c, id,
                 [c.deployments[id] EXCEPT !.status = "CANCELLED"], ZeroId))

\* One leaf submitted to SphinxAuth (setup, propose, upgradeManagerAndAuthImpl,
\* approveDeployment, cancelActiveDeployment).
AuthExecuteLeaf(c, leaf, id) ==
    LET r == IF leaf.leafTypeEnum = "APPROVE_DEPLOYMENT" THEN ManagerApprove(c, id)
             ELSE IF leaf.leafTypeEnum = "CANCEL_ACTIVE_DEPLOYMENT" THEN ManagerCancel(c)
             ELSE Succeeded(c)
    IN  IF leaf.index # c.leafsExecuted THEN Reverted(c, "InvalidLeafIndex", 0)
        ELSE IF ~r.ok THEN Reverted(c, r.err, 0)
        ELSE Succeeded([r.chain EXCEPT !.leafsExecuted = @ + 1])

(***************************************************************************)
(* The states a network can be in when the driver reaches it.              *)
(***************************************************************************)
Min(a, b) == IF a <= b THEN a ELSE b

NumInitial(b) == Len(splitActions(b.actions).initialActions)

\* The number of actions that can be executed before one reverts.
Executable(b) ==
    LET n == Len(b.actions)
        bad == {k \in 1..n : b.actions[k].reverts}
    IN  IF bad = {} THEN n ELSE (CHOOSE k \in bad : \A j \in bad : k <= j) - 1

\* The states the manager can hold for the bundle's own deployment (a bundle
\* with nothing to execute was never approved).
DeploymentStatesOf(b) ==
    LET n == Len(b.actions)
        nI == NumInitial(b)
        lim == Executable(b)
        upg == b.numTargets > 0
    IN  IF Len(b.authLeafs) = 0 THEN {EmptyState} ELSE
        {EmptyState}
        \cup {[status |-> "APPROVED", actionsExecuted |-> e] : e \in 0..Min(nI - 1, lim)}
        \cup {[status |-> "INITIAL_ACTIONS_EXECUTED", actionsExecuted |-> nI] :
                 e \in {x \in {0} : upg /\ lim >= nI}}
        \cup {[status |-> "PROXIES_INITIATED", actionsExecuted |-> e] :
                 e \in {x \in nI..Min(n - 1, lim) : upg}}
        \cup {[status |-> "SET_STORAGE_ACTIONS_EXECUTED", actionsExecuted |-> n] :
                 e \in {x \in {0} : upg /\ lim = n}}
        \cup {[status |-> "COMPLETED", actionsExecuted |-> n] : e \in {x \in {0} : lim = n}}
        \cup {[status |-> "FAILED", actionsExecuted |-> lim] : e \in {x \in {0} : lim < n}}
        \cup {[status |-> "CANCELLED", actionsExecuted |-> e] : e \in {Min(1, lim)}}

IsExecuting(status) ==
    status \in {"APPROVED", "INITIAL_ACTIONS_EXECUTED", "PROXIES_INITIATED",
                "SET_STORAGE_ACTIONS_EXECUTED"}

ChainState(b, st, active, le, reg, fm, gl) ==
    [activeDeploymentId |-> active,
     deployments |-> [id \in DeploymentIds |->
         IF id = BundleId THEN st
         ELSE IF id = OtherId /\ active = OtherId
              THEN [status |-> "APPROVED", actionsExecuted |-> 1]
              ELSE EmptyState],
     numInitialActions |-> NumInitial(b),
     numSetStorageActions |-> Len(b.actions) - NumInitial(b),
     numTargets |-> b.numTargets,
     leafsExecuted |-> le,
     registered |-> reg,
     failMode |-> fm,
     gaslimit |-> gl]

\* The manager and auth states that are consistent with one another: only an
\* executing deployment is the active one, the approval leaf is executed exactly
\* when the deployment is no longer EMPTY, and the project is registered exactly
\* when its contracts have been used.
ChainStatesOf(b) ==
    LET nL == Len(b.authLeafs)
        canFail == Executable(b) < Len(b.actions)
    IN  { c \in { ChainState(b, st, active, le, reg, fm, gl) :
                    st \in DeploymentStatesOf(b), active \in DeploymentIds,
                    le \in 0..nL, reg \in BOOLEAN, fm \in {"revert", "status"},
                    gl \in BlockGasLimits } :
            /\ (c.activeDeploymentId = BundleId) <=> IsExecuting(c.deployments[BundleId].status)
            /\ IF c.deployments[BundleId].status = "EMPTY"
               THEN c.leafsExecuted < nL \/ nL = 0
               ELSE c.leafsExecuted = nL
            /\ c.registered <=> (\/ c.leafsExecuted > 0
                                 \/ c.activeDeploymentId # ZeroId
                                 \/ c.deployments[BundleId].status # "EMPTY")
            /\ (c.failMode = "revert") => canFail }

Environments ==
    UNION { { [bundleInfo |-> b, chain |-> c] : c \in ChainStatesOf(b) } : b \in Bundles }

(***************************************************************************)
(* The driver.                                                             *)
(***************************************************************************)
VARIABLES
    sphinxMode,     \* the mode the entry point set
    numNetworks,    \* networks.length of sphinxSimulateProposal (1 for sphinxDeployTask)
    i,              \* the number of networks the loop has selected so far
    pc,             \* the driver's position
    bundleInfo,     \* _bundleInfoArray[i], the bundle of the selected network
    chain,          \* the manager and auth contracts of the selected network
    dn,             \* locals of sphinxDeployOnNetwork
    ed,             \* locals of sphinxExecuteDeployment
    ba,             \* locals of sphinxExecuteBatchActions
    calls,          \* the transactions submitted on the selected network, in order
    outcome         \* how sphinxDeployOnNetwork ended on the selected network

vars == <<sphinxMode, numNetworks, i, pc, bundleInfo, chain, dn, ed, ba, calls, outcome>>

\* The state of one run of propose (packages/plugins/src/cli/propose/index.ts).
VARIABLES
    args,               \* ProposeArgs: confirm, isDryRun, silent
    networkConfigArray, \* what buildNetworkConfigArray collects, one NetworkConfig per network
    proposePc,          \* the position of propose
    merkleTree,         \* the result of makeSphinxMerkleTree
    gasEstimates,       \* the results of getNetworkGasEstimate
    proposalRequest,    \* the ProposalRequest propose builds
    io,                 \* the calls propose has made to its collaborators, in order
    thrown              \* the error propose ended with

proposeVars == <<args, networkConfigArray, proposePc, merkleTree, gasEstimates,
                 proposalRequest, io, thrown>>

NoTree == [root |-> <<>>, leavesWithProofs |-> <<>>]
NoRequest == [built |-> FALSE]

\* propose is not running.
ProposeIdle ==
    /\ args = [confirm |-> FALSE, isDryRun |-> FALSE, silent |-> FALSE]
    /\ networkConfigArray = <<>>
    /\ proposePc = "idle"
    /\ merkleTree = NoTree
    /\ gasEstimates = <<>>
    /\ proposalRequest = NoRequest
    /\ io = <<>>
    /\ thrown = ""

\* One sizing of a batch: the two calls of lines 346-356 and 416 of Sphinx.sol
\* on an action list and a block gas limit of their own.
VARIABLES
    packer              \* the inputs, the position and the results of the sizing

packerVars == <<packer>>

\* No batch is being sized.
PackerIdle == packer = [pc |-> "idle"]

\* One process that runs the user's script under the sphinx modifier.
VARIABLES
    script              \* the storage of the Sphinx contract and the position of the run

scriptVars == <<script>>

\* No script is running.
ScriptIdle == script = [pc |-> "off"]

\* One run of monitorExecution and the manager it polls.
VARIABLES
    monitor,            \* the locals and the position of monitorExecution
    bundles             \* ChugSplashManager.bundles(bundleId), the state on the chain

monitorVars == <<monitor, bundles>>

\* Nothing is monitored.
MonitorIdle == monitor = [pc |-> "off"] /\ bundles = [status |-> "EMPTY"]

\* One run of postExecutionActions.
VARIABLES
    post                \* the inputs, the position and the calls of postExecutionActions

postVars == <<post>>

\* postExecutionActions is not running.
PostIdle == post = [pc |-> "off"]

NotRead == "-"

\* fetchedAt: the number of transactions submitted when status was last read
\* from the manager (a local assignment to status leaves it as it is).
DN0 == [status |-> "EMPTY", i |-> 0, leafsExecuted |-> 0, fetchedAt |-> 0]
ED0 == [status |-> "EMPTY", failedActionIndex |-> 0]
BA0 == [isSetStorageActionArray |-> FALSE, activeDeploymentId |-> NotRead,
        state |-> EmptyState, filteredActions |-> <<>>, executed |-> 0,
        startExecuted |-> 0]

NoOutcome == [result |-> "none", message |-> "", executionSuccess |-> FALSE,
              reported |-> NoIndex, parts |-> {}]

NoChain == ChainState(EmptyBundleInfo, EmptyState, ZeroId, 0, FALSE, "status", 5)

\* One submitted transaction: the function, the indices of the actions it
\* carried, whether it succeeded, and what the manager held right after it.
Tx(fn, batch, r, startExecuted) ==
    [fn |-> fn,
     indices |-> [k \in 1..Len(batch) |-> batch[k].index],
     ok |-> r.ok,
     err |-> r.err,
     statusAfter |-> r.chain.deployments[BundleId].status,
     executedAfter |-> r.chain.deployments[BundleId].actionsExecuted,
     startExecuted |-> startExecuted]

\* bufferedGasLimit of sphinxExecuteDeployment.
BufferedGasLimit(blockGasLimit) == ((blockGasLimit \div 2) * 120) \div 100

\* Mutant: the whole forwarded gas is the budget.
BatchGasBudget_NoMargin(bufferedGasLimit) == bufferedGasLimit

\* The budget sphinxExecuteBatchActions hands to findMaxBatchSize.
BatchGasBudget(bufferedGasLimit) == bufferedGasLimit - (bufferedGasLimit * 20) \div 100

\* Mutant: the approval is sent like executeInitialActions, its failure captured.
PropagatesRevert_ApproveCaptured(fn) == fn \notin {"executeInitialActions", "approveDeployment"}

\* The calls whose revert reaches the script: all but the low-level call that
\* carries executeInitialActions, whose failure the driver captures.
PropagatesRevert(fn) == fn # "executeInitialActions"

\* Mutant: the executed actions are not filtered out.
FilteredActions_Unfiltered(bundledActions, st) == bundledActions

\* The actions sphinxExecuteBatchActions keeps after reading the deployment state.
FilteredActions(bundledActions, st) == removeExecutedActions(bundledActions, st.actionsExecuted)

\* Mutant: the batch is cut from the start of the list, not from `executed`.
BatchSlice_FromStart(filteredActions, executed, batchSize) ==
    inefficientSlice(filteredActions, 0, batchSize)

\* Mutant: one action per batch, whatever the packer admits.
BatchSlice_Single(filteredActions, executed, batchSize) ==
    inefficientSlice(filteredActions, executed, executed + 1)

\* The batch of one loop iteration.
BatchSlice(filteredActions, executed, batchSize) ==
    inefficientSlice(filteredActions, executed, executed + batchSize)

\* Mutant: the progress counter moves by one action, not by the batch.
NextExecuted_ByOne(executed, batchSize) == executed + 1

\* Mutant: the progress counter stays where it is.
NextExecuted_Stays(executed, batchSize) == executed

\* "Move to next batch if necessary": executed += batchSize.
NextExecuted(executed, batchSize) == executed + batchSize

\* "Return early if the deployment failed."
ReturnEarlyOnFailure(status) == status = "FAILED"

\* sphinxExecuteDeployment after the initial actions.
InitialActionsFailed(status) == status = "FAILED"
\* Mutant: every status but FAILED counts as completed.
InitialActionsCompleted_NotFailed(status) == status # "FAILED"

InitialActionsCompleted(status) == status = "COMPLETED"

\* Mutant: the upgrade is finalized where it should be initiated.
CallAfterInitialActions_Finalize == "finalizeUpgrade"

CallAfterInitialActions == "initiateUpgrade"
CallAfterSetStorageActions == "finalizeUpgrade"

\* Mutant: a bundle without auth leaves is driven like any other.
NothingToExecute_Never(b) == FALSE

\* "Nothing to execute": the bundle carries no auth leaf.
NothingToExecute(b) == Len(b.authLeafs) = 0

\* Mutant: the early exit on a completed deployment is missing.
AlreadyCompleted_Never(status) == FALSE

\* "Deployment was already completed."
AlreadyCompleted(status) == status = "COMPLETED"

\* Mutant: everything that is not completed is executed.
ShouldExecute_NotCompleted(status) == status # "COMPLETED"

\* The statuses on which sphinxDeployOnNetwork executes the deployment.
ShouldExecute(status) ==
    status \in {"APPROVED", "INITIAL_ACTIONS_EXECUTED", "PROXIES_INITIATED",
                "SET_STORAGE_ACTIONS_EXECUTED"}

\* Mutant: no leaf is taken as executed before.
SkipLeaf_Never(leafsExecuted, leaf) == FALSE

\* The auth leaves already executed are skipped.
\* "if (leafsExecuted > leaf.leaf.index) continue"
SkipLeaf(leafsExecuted, leaf) == leafsExecuted > leaf.index

LeafFunction(leafTypeEnum) ==
    CASE leafTypeEnum = "SETUP" -> "setup"
      [] leafTypeEnum = "PROPOSE" -> "propose"
      [] leafTypeEnum = "UPGRADE_MANAGER_AND_AUTH_IMPL" -> "upgradeManagerAndAuthImpl"
      [] leafTypeEnum = "APPROVE_DEPLOYMENT" -> "approveDeployment"
      [] leafTypeEnum = "CANCEL_ACTIVE_DEPLOYMENT" -> "cancelActiveDeployment"

ManagerUpgradeCall(c, fn) ==
    IF fn = "initiateUpgrade" THEN ManagerInitiateUpgrade(c) ELSE ManagerFinalizeUpgrade(c)

Init ==
    /\ sphinxMode \in SphinxMode
    /\ numNetworks \in (IF sphinxMode = "Proposal" THEN 1..NumChains ELSE {1})
    /\ i = 0
    /\ pc = "loop"
    /\ bundleInfo = EmptyBundleInfo
    /\ chain = NoChain
    /\ dn = DN0
    /\ ed = ED0
    /\ ba = BA0
    /\ calls = <<>>
    /\ outcome = NoOutcome
    /\ ProposeIdle
    /\ PackerIdle
    /\ ScriptIdle
    /\ MonitorIdle
    /\ PostIdle

\* sphinxDeployOnNetwork returns.
Return(message, executionSuccess) ==
    /\ outcome' = [result |-> "returned", message |-> message,
                   executionSuccess |-> executionSuccess, reported |-> NoIndex,
                   parts |-> {}]
    /\ pc' = "deployed"

\* What the text of a revert tells the user: the message built at the end of
\* sphinxDeployOnNetwork is a fixed text followed by readableAction.reason; the
\* packer names the index of the action that does not fit; every other revert
\* carries the error of the call that failed and nothing else.
RevertMessageParts(message) ==
    IF message = "failed to execute deployment because the following action reverted"
    THEN {"description"}
    ELSE IF message = "Unable to find a batch size that does not exceed the gas budget"
    THEN {"actionIndex"}
    ELSE {}

\* A revert reaches the script: the whole run ends.
Revert(message, reported) ==
    /\ outcome' = [result |-> "reverted", message |-> message,
                   executionSuccess |-> FALSE, reported |-> reported,
                   parts |-> RevertMessageParts(message)]
    /\ pc' = "reverted"

\* sphinxExecuteBatchActions returns (status, failedActionIndex) to
\* sphinxExecuteDeployment, which keeps it only for the initial actions.
BatchReturn(status, failedActionIndex) ==
    IF ba.isSetStorageActionArray
    THEN /\ pc' = "afterSetStorage"
         /\ UNCHANGED ed
    ELSE /\ pc' = "afterInitial"
         /\ ed' = [status |-> status, failedActionIndex |-> failedActionIndex]

\* The for loop of sphinxSimulateProposal (one pass in sphinxDeployTask):
\* vm.createSelectFork, then the call of sphinxDeployOnNetwork.
SelectFork ==
    /\ pc = "loop"
    /\ i < numNetworks
    /\ \E env \in Environments :
          /\ bundleInfo' = env.bundleInfo
          /\ chain' = env.chain
    /\ i' = i + 1
    /\ pc' = "sphinxDeployOnNetwork"
    /\ UNCHANGED <<proposeVars, packerVars, scriptVars, monitorVars, postVars>>
    /\ UNCHANGED <<sphinxMode, numNetworks, dn, ed, ba, calls, outcome>>

\* sphinxDeployOnNetwork has returned and networks remain: vm.stopPrank and the
\* next pass of the loop, which leaves the fork of this network behind.
NextNetwork ==
    /\ pc = "deployed"
    /\ i < numNetworks
    /\ pc' = "loop"
    /\ bundleInfo' = EmptyBundleInfo
    /\ chain' = NoChain
    /\ dn' = DN0
    /\ ed' = ED0
    /\ ba' = BA0
    /\ calls' = <<>>
    /\ outcome' = NoOutcome
    /\ UNCHANGED <<proposeVars, packerVars, scriptVars, monitorVars, postVars>>
    /\ UNCHANGED <<sphinxMode, numNetworks, i>>

\* sphinxDeployOnNetwork has returned on the last network: the entry point returns.
LoopExit ==
    /\ pc = "deployed"
    /\ i = numNetworks
    /\ pc' = "returned"
    /\ UNCHANGED <<proposeVars, packerVars, scriptVars, monitorVars, postVars>>
    /\ UNCHANGED <<sphinxMode, numNetworks, i, bundleInfo, chain, dn, ed, ba, calls, outcome>>

\* sphinxDeployOnNetwork up to the read of the deployment state.
DeployOnNetworkBegin ==
    /\ pc = "sphinxDeployOnNetwork"
    /\ IF NothingToExecute(bundleInfo)
       THEN /\ Return("Nothing to execute", FALSE)
            /\ UNCHANGED <<chain, calls, dn>>
       ELSE LET reg == [ok |-> TRUE, err |-> "", errIndex |-> NoIndex,
                        chain |-> [chain EXCEPT !.registered = TRUE]]
                deploymentState == deployments(reg.chain, getDeploymentId(bundleInfo))
            IN  /\ chain' = reg.chain
                /\ calls' = IF chain.registered THEN calls
                            ELSE Append(calls, Tx("authFactory.deploy", <<>>, reg, NoIndex))
                /\ dn' = [status |-> deploymentState.status, i |-> 0,
                          leafsExecuted |-> reg.chain.leafsExecuted,
                          fetchedAt |-> Len(calls')]
                /\ IF AlreadyCompleted(deploymentState.status)
                   THEN Return("Deployment was already completed", FALSE)
                   ELSE /\ pc' = IF /\ deploymentState.status = "EMPTY"
                                    /\ Len(bundleInfo.authLeafs) > 0
                                 THEN "authLeafs" ELSE "execute"
                        /\ UNCHANGED outcome
    /\ UNCHANGED <<proposeVars, packerVars, scriptVars, monitorVars, postVars>>
    /\ UNCHANGED <<sphinxMode, numNetworks, i, bundleInfo, ed, ba>>

\* One pass of the loop over the auth leaves.
AuthLeaf ==
    /\ pc = "authLeafs"
    /\ LET leaf == bundleInfo.authLeafs[dn.i + 1]
           fn == LeafFunction(leaf.leafTypeEnum)
           r == AuthExecuteLeaf(chain, leaf, getDeploymentId(bundleInfo))
           next == IF dn.i + 1 = Len(bundleInfo.authLeafs) THEN "execute" ELSE "authLeafs"
       IN  IF SkipLeaf(dn.leafsExecuted, leaf)
           THEN /\ dn' = [dn EXCEPT !.i = @ + 1]
                /\ pc' = next
                /\ UNCHANGED <<chain, calls, outcome>>
           ELSE /\ chain' = r.chain
                /\ calls' = Append(calls, Tx(fn, <<>>, r, NoIndex))
                /\ IF ~r.ok /\ PropagatesRevert(fn)
                   THEN /\ Revert(r.err, NoIndex)
                        /\ UNCHANGED dn
                   ELSE /\ dn' = [dn EXCEPT !.i = @ + 1,
                                            !.status = IF leaf.leafTypeEnum = "APPROVE_DEPLOYMENT"
                                                       THEN "APPROVED" ELSE @]
                        /\ pc' = next
                        /\ UNCHANGED outcome
    /\ UNCHANGED <<proposeVars, packerVars, scriptVars, monitorVars, postVars>>
    /\ UNCHANGED <<sphinxMode, numNetworks, i, bundleInfo, ed, ba>>

\* The decision to execute, claimDeployment, and the entry of
\* sphinxExecuteDeployment up to its first call of sphinxExecuteBatchActions.
EnterExecution ==
    /\ pc = "execute"
    /\ IF ~ShouldExecute(dn.status)
       THEN /\ Return("", FALSE)
            /\ UNCHANGED <<chain, calls>>
       ELSE IF sphinxMode \in {"Proposal", "LocalNetworkBroadcast"}
       THEN LET r == ManagerClaimDeployment(chain)
            IN  /\ chain' = r.chain
                /\ calls' = Append(calls, Tx("claimDeployment", <<>>, r, NoIndex))
                /\ IF ~r.ok /\ PropagatesRevert("claimDeployment")
                   THEN Revert(r.err, NoIndex)
                   ELSE /\ pc' = "batchStart"
                        /\ UNCHANGED outcome
       ELSE /\ pc' = "batchStart"
            /\ UNCHANGED <<chain, calls, outcome>>
    /\ UNCHANGED <<proposeVars, packerVars, scriptVars, monitorVars, postVars>>
    /\ UNCHANGED <<sphinxMode, numNetworks, i, bundleInfo, dn, ed, ba>>

\* sphinxExecuteBatchActions up to its loop: the state is pulled from the
\* manager and the executed actions are filtered out.
BatchBegin ==
    /\ pc = "batchStart"
    /\ LET activeDeploymentId == chain.activeDeploymentId
           state == deployments(chain, activeDeploymentId)
           split == splitActions(bundleInfo.actions)
           bundledActions == IF ba.isSetStorageActionArray
                             THEN split.setStorageActions ELSE split.initialActions
           filteredActions == FilteredActions(bundledActions, state)
       IN  /\ ba' = [ba EXCEPT !.activeDeploymentId = activeDeploymentId,
                               !.state = state,
                               !.filteredActions = filteredActions,
                               !.executed = 0,
                               !.startExecuted = state.actionsExecuted]
           /\ IF Len(filteredActions) = 0
              THEN BatchReturn(state.status, 0)
              ELSE /\ pc' = "batchLoop"
                   /\ UNCHANGED ed
    /\ UNCHANGED <<proposeVars, packerVars, scriptVars, monitorVars, postVars>>
    /\ UNCHANGED <<sphinxMode, numNetworks, i, bundleInfo, chain, dn, calls, outcome>>

\* One iteration of the batch loop: the batch is sized, submitted, and the
\* deployment state is read back.
BatchIteration ==
    /\ pc = "batchLoop"
    /\ LET bufferedGasLimit == BufferedGasLimit(chain.gaslimit)
           remaining == inefficientSlice(ba.filteredActions, ba.executed,
                                         Len(ba.filteredActions))
           found == findMaxBatchSize(remaining, BatchGasBudget(bufferedGasLimit))
           batch == BatchSlice(ba.filteredActions, ba.executed, found.size)
           rawActions == disassembleActions(batch)
           fn == IF ba.isSetStorageActionArray THEN "setStorage" ELSE "executeInitialActions"
           r == ManagerExecuteActions(chain, fn, rawActions)
           state == deployments(r.chain, ba.activeDeploymentId)
           executed == NextExecuted(ba.executed, found.size)
       IN  IF ~found.ok
           THEN /\ Revert("Unable to find a batch size that does not exceed the gas budget",
                          found.index)
                /\ UNCHANGED <<chain, calls, ba, ed>>
           ELSE /\ chain' = r.chain
                /\ calls' = Append(calls, Tx(fn, rawActions, r, ba.startExecuted))
                /\ IF ~r.ok
                   THEN IF PropagatesRevert(fn)
                        THEN /\ Revert(r.err, NoIndex)
                             /\ UNCHANGED <<ba, ed>>
                        ELSE /\ BatchReturn("FAILED", r.errIndex)
                             /\ UNCHANGED <<ba, outcome>>
                   ELSE IF ReturnEarlyOnFailure(state.status)
                   THEN /\ BatchReturn(state.status, 0)
                        /\ ba' = [ba EXCEPT !.state = state]
                        /\ UNCHANGED outcome
                   ELSE IF executed < Len(ba.filteredActions)
                   THEN /\ ba' = [ba EXCEPT !.state = state, !.executed = executed]
                        /\ pc' = "batchLoop"
                        /\ UNCHANGED <<ed, outcome>>
                   ELSE /\ BatchReturn(state.status, 0)
                        /\ ba' = [ba EXCEPT !.state = state, !.executed = executed]
                        /\ UNCHANGED outcome
    /\ UNCHANGED <<proposeVars, packerVars, scriptVars, monitorVars, postVars>>
    /\ UNCHANGED <<sphinxMode, numNetworks, i, bundleInfo, dn>>

\* sphinxExecuteDeployment after the initial actions: the early returns, or
\* initiateUpgrade and the call of sphinxExecuteBatchActions for the
\* set-storage actions.  A false return makes sphinxDeployOnNetwork revert.
AfterInitialActions ==
    /\ pc = "afterInitial"
    /\ IF InitialActionsFailed(ed.status)
       THEN /\ IF ed.failedActionIndex < Len(bundleInfo.humanReadableActions)
               THEN Revert("failed to execute deployment because the following action reverted",
                           bundleInfo.humanReadableActions[ed.failedActionIndex + 1].actionIndex)
               ELSE Revert("array out-of-bounds access", NoIndex)
            /\ UNCHANGED <<chain, calls, ba>>
       ELSE IF InitialActionsCompleted(ed.status)
       THEN /\ Return("", TRUE)
            /\ UNCHANGED <<chain, calls, ba>>
       ELSE LET fn == CallAfterInitialActions
                r == ManagerUpgradeCall(chain, fn)
            IN  /\ chain' = r.chain
                /\ calls' = Append(calls, Tx(fn, <<>>, r, NoIndex))
                /\ IF ~r.ok /\ PropagatesRevert(fn)
                   THEN /\ Revert(r.err, NoIndex)
                        /\ UNCHANGED ba
                   ELSE /\ pc' = "batchStart"
                        /\ ba' = [BA0 EXCEPT !.isSetStorageActionArray = TRUE]
                        /\ UNCHANGED outcome
    /\ UNCHANGED <<proposeVars, packerVars, scriptVars, monitorVars, postVars>>
    /\ UNCHANGED <<sphinxMode, numNetworks, i, bundleInfo, dn, ed>>

\* sphinxExecuteDeployment after the set-storage actions: finalizeUpgrade and
\* the return of success.
AfterSetStorageActions ==
    /\ pc = "afterSetStorage"
    /\ LET fn == CallAfterSetStorageActions
           r == ManagerUpgradeCall(chain, fn)
       IN  /\ chain' = r.chain
           /\ calls' = Append(calls, Tx(fn, <<>>, r, NoIndex))
           /\ IF ~r.ok /\ PropagatesRevert(fn)
              THEN Revert(r.err, NoIndex)
              ELSE Return("", TRUE)
    /\ UNCHANGED <<proposeVars, packerVars, scriptVars, monitorVars, postVars>>
    /\ UNCHANGED <<sphinxMode, numNetworks, i, bundleInfo, dn, ed, ba>>

Next ==
    \/ SelectFork
    \/ NextNetwork
    \/ LoopExit
    \/ DeployOnNetworkBegin
    \/ AuthLeaf
    \/ EnterExecution
    \/ BatchBegin
    \/ BatchIteration
    \/ AfterInitialActions
    \/ AfterSetStorageActions

Spec == Init /\ [][Next]_vars

TypeOK ==
    /\ pc \in {"loop", "deployed", "sphinxDeployOnNetwork", "authLeafs", "execute", "batchStart",
               "batchLoop", "afterInitial", "afterSetStorage", "returned", "reverted"}
    /\ i \in 0..numNetworks
    /\ outcome.result \in {"none", "returned", "reverted"}

(***************************************************************************)
(* The manager keeps its own books: the bundle's deployment is the active  *)
(* one exactly while it is executing, and the only failure the low-level   *)
(* call of executeInitialActions meets is a reverting action.              *)
(***************************************************************************)
ManagerConsistent ==
    (chain.activeDeploymentId = BundleId) <=> IsExecuting(chain.deployments[BundleId].status)

LowLevelFailureIsAction ==
    \A k \in 1..Len(calls) :
        (calls[k].fn = "executeInitialActions" /\ ~calls[k].ok) => calls[k].err = "ActionFailed"

(***************************************************************************)
(* propose (packages/plugins/src/cli/propose/index.ts): the NetworkConfigs *)
(* of the target networks are collected, the Merkle tree is built, every   *)
(* network with actions is simulated, the preview is shown, the configs    *)
(* are compared across networks, the ProposalRequest is assembled and,     *)
(* unless this is a dry run, stored and relayed.                           *)
(***************************************************************************)
MaxNetworks == 2
MaxActions == 2

\* NetworkConfig.chainId is a decimal string; Number and BigInt read it.
ChainIdStrings == {"1", "5", "10"}

Number(str) ==
    CASE str = "1" -> 1
      [] str = "2" -> 2
      [] str = "5" -> 5
      [] str = "10" -> 10

BigInt(str) == Number(str)

\* The fields of a NetworkConfig that propose expects to be the same on every
\* network.
SharedConfig(threshold, safeAddress) ==
    [newConfig |-> [owners |-> <<"owner1", "owner2">>, threshold |-> threshold,
                    orgId |-> "org", projectName |-> "project", saltNonce |-> "0"],
     safeAddress |-> safeAddress,
     moduleAddress |-> "module",
     safeInitData |-> "initData"]

SharedConfigs ==
    {SharedConfig("1", "safeA"), SharedConfig("2", "safeA"), SharedConfig("1", "safeB")}

\* One NetworkConfig: actionInputs is kept by its length.
NetworkConfig(chainId, numActions, shared) ==
    [chainId |-> chainId,
     actionInputs |-> numActions,
     newConfig |-> shared.newConfig,
     safeAddress |-> shared.safeAddress,
     moduleAddress |-> shared.moduleAddress,
     safeInitData |-> shared.safeInitData,
     initialState |-> [isExecuting |-> FALSE]]

NetworkConfigs ==
    { NetworkConfig(c, n, sh) : c \in ChainIdStrings, n \in 0..MaxActions, sh \in SharedConfigs }

\* The arrays buildNetworkConfigArray can collect: one config per network, the
\* networks distinct.
NetworkConfigArrays ==
    UNION { [1..n -> NetworkConfigs] : n \in 1..MaxNetworks }

\* Mutant: isEmpty as soon as one network has nothing to execute.
IsEmpty_Some(array) == \E k \in 1..Len(array) : array[k].actionInputs = 0

\* isEmpty of buildNetworkConfigArray.
IsEmpty(array) == \A k \in 1..Len(array) : array[k].actionInputs = 0

\* makeDeploymentData: what the Merkle tree is built from, per network.
makeDeploymentData(array) ==
    [k \in 1..Len(array) |-> [chainId |-> array[k].chainId, numActions |-> array[k].actionInputs]]

\* The leaves of the tree, network after network: the APPROVE leaf of the
\* network, then one EXECUTE leaf per action.
RECURSIVE MerkleLeaves(_, _)
MerkleLeaves(deploymentData, k) ==
    IF k > Len(deploymentData) THEN <<>>
    ELSE LET d == deploymentData[k]
         IN  <<[leafType |-> "APPROVE", chainId |-> BigInt(d.chainId), index |-> 0]>>
             \o [j \in 1..d.numActions |->
                    [leafType |-> "EXECUTE", chainId |-> BigInt(d.chainId), index |-> j]]
             \o MerkleLeaves(deploymentData, k + 1)

\* The hash of a leaf, and the hash of an inner node over its two children
\* taken as a sorted pair: hashes are terms, so different inputs never collide.
LeafHash(leaf) == <<"leaf", leaf>>
NodeHash(a, b) == <<"node", {a, b}>>

\* The level above a level of hashes: neighbours are paired, and a last hash
\* without a neighbour moves up as it is.
ParentLevel(level) ==
    [k \in 1..((Len(level) + 1) \div 2) |->
        IF 2 * k <= Len(level) THEN NodeHash(level[2 * k - 1], level[2 * k])
        ELSE level[2 * k - 1]]

RECURSIVE MerkleRoot(_)
MerkleRoot(level) ==
    IF Len(level) = 1 THEN level[1] ELSE MerkleRoot(ParentLevel(level))

\* Mutant: the proof stops after the sibling at the level of the leaves.
MerkleProof_LeafLevelOnly(level, pos) ==
    IF Len(level) = 1 THEN <<>>
    ELSE LET sibling == IF pos % 2 = 1 THEN pos + 1 ELSE pos - 1
         IN  IF sibling <= Len(level) THEN <<level[sibling]>> ELSE <<>>

\* The sibling hashes on the path from position pos of a level up to the root.
RECURSIVE MerkleProof(_, _)
MerkleProof(level, pos) ==
    IF Len(level) = 1 THEN <<>>
    ELSE LET sibling == IF pos % 2 = 1 THEN pos + 1 ELSE pos - 1
         IN  (IF sibling <= Len(level) THEN <<level[sibling]>> ELSE <<>>)
             \o MerkleProof(ParentLevel(level), (pos + 1) \div 2)

\* The inclusion check: the hash the proof leads to, starting from a leaf hash.
RECURSIVE ProcessProof(_, _)
ProcessProof(hash, proof) ==
    IF Len(proof) = 0 THEN hash
    ELSE ProcessProof(NodeHash(hash, proof[1]), Tail(proof))

\* makeSphinxMerkleTree: the root over the leaf hashes and, for every leaf, its
\* sibling-hash proof.
makeSphinxMerkleTree(deploymentData) ==
    LET leaves == MerkleLeaves(deploymentData, 1)
        hashes == [k \in 1..Len(leaves) |-> LeafHash(leaves[k])]
    IN  [root |-> MerkleRoot(hashes),
         leavesWithProofs |->
             [k \in 1..Len(leaves) |-> [leaf |-> leaves[k], proof |-> MerkleProof(hashes, k)]]]

\* The builder is handed every network, those without actions included.  It may
\* reject such an input (EmptyBundle); whether it does is left open.
MayFailEmptyBundle(deploymentData) ==
    \E k \in 1..Len(deploymentData) : deploymentData[k].numActions = 0

\* elementsEqual: every element equals the first.
elementsEqual(arr) == \A k \in 1..Len(arr) : arr[k] = arr[1]

\* Mutant: only the Safe and module addresses are compared.
ShouldBeEqual_AddressesOnly(array) ==
    [k \in 1..Len(array) |->
        [safeAddress |-> array[k].safeAddress,
         moduleAddress |-> array[k].moduleAddress]]

ShouldBeEqual(array) ==
    [k \in 1..Len(array) |->
        [newConfig |-> array[k].newConfig,
         safeAddress |-> array[k].safeAddress,
         moduleAddress |-> array[k].moduleAddress,
         safeInitData |-> array[k].safeInitData]]

\* Mutant: networks without actions are not skipped.
SkipsChain_Never(networkConfig) == FALSE

\* "We skip chains that don't have any transactions to execute."
SkipsChain(networkConfig) == networkConfig.actionInputs = 0

\* Mutant: the leaf count of a chain leaves out its approval leaf.
NumLeaves_ActionsOnly(networkConfig) == networkConfig.actionInputs

\* numLeaves of a chain's chainStatus entry.
NumLeaves(networkConfig) == networkConfig.actionInputs + 1

\* Mutant: with several approval leaves for the chain the first one is used.
getProjectDeploymentForChain_FirstOfMany(tree, networkConfig) ==
    LET isApproval(l) == /\ l.leaf.leafType = "APPROVE"
                         /\ l.leaf.chainId = BigInt(networkConfig.chainId)
        approvalLeaves == SelectSeq(tree.leavesWithProofs, isApproval)
    IN  IF Len(approvalLeaves) = 0 THEN [kind |-> "undefined"]
        ELSE [kind |-> "deployment",
              value |-> [chainId |-> Number(networkConfig.chainId),
                         deploymentId |-> tree.root,
                         name |-> networkConfig.newConfig.projectName,
                         isExecuting |-> networkConfig.initialState.isExecuting]]

getProjectDeploymentForChain(tree, networkConfig) ==
    LET isApproval(l) == /\ l.leaf.leafType = "APPROVE"
                         /\ l.leaf.chainId = BigInt(networkConfig.chainId)
        approvalLeaves == SelectSeq(tree.leavesWithProofs, isApproval)
    IN  IF Len(approvalLeaves) = 0 THEN [kind |-> "undefined"]
        ELSE IF Len(approvalLeaves) > 1 THEN [kind |-> "throw"]
        ELSE [kind |-> "deployment",
              value |-> [chainId |-> Number(networkConfig.chainId),
                         deploymentId |-> tree.root,
                         name |-> networkConfig.newConfig.projectName,
                         isExecuting |-> networkConfig.initialState.isExecuting]]

\* The loop over networkConfigArray that fills projectDeployments, chainStatus
\* and chainIds, from position k on.
RECURSIVE ChainLoop(_, _, _)
ChainLoop(array, tree, k) ==
    IF k > Len(array)
    THEN [projectDeployments |-> <<>>, chainStatus |-> <<>>, chainIds |-> <<>>, threw |-> FALSE]
    ELSE LET networkConfig == array[k]
             rest == ChainLoop(array, tree, k + 1)
             pd == getProjectDeploymentForChain(tree, networkConfig)
         IN  IF SkipsChain(networkConfig) THEN rest
             ELSE IF pd.kind = "throw"
             THEN [projectDeployments |-> <<>>, chainStatus |-> <<>>, chainIds |-> <<>>,
                   threw |-> TRUE]
             ELSE [projectDeployments |->
                       (IF pd.kind = "deployment" THEN <<pd.value>> ELSE <<>>)
                       \o rest.projectDeployments,
                   chainStatus |->
                       <<[chainId |-> Number(networkConfig.chainId),
                          numLeaves |-> NumLeaves(networkConfig)]>>
                       \o rest.chainStatus,
                   chainIds |-> <<Number(networkConfig.chainId)>> \o rest.chainIds,
                   threw |-> rest.threw]

\* The networks whose simulation propose starts, in order.
RECURSIVE SimulatedChains(_, _)
SimulatedChains(array, k) ==
    IF k > Len(array) THEN <<>>
    ELSE (IF array[k].actionInputs > 0 THEN <<array[k].chainId>> ELSE <<>>)
         \o SimulatedChains(array, k + 1)

Call(fn, arg) == [fn |-> fn, arg |-> arg]

Throw(message) ==
    /\ proposePc' = "threw"
    /\ thrown' = message

\* The deployment driver is not running.
DriverIdle ==
    /\ sphinxMode = "Proposal"
    /\ numNetworks = 1
    /\ i = 0
    /\ pc = "loop"
    /\ bundleInfo = EmptyBundleInfo
    /\ chain = NoChain
    /\ dn = DN0
    /\ ed = ED0
    /\ ba = BA0
    /\ calls = <<>>
    /\ outcome = NoOutcome

ProposeInit ==
    /\ args \in [confirm : BOOLEAN, isDryRun : BOOLEAN, silent : BOOLEAN]
    /\ networkConfigArray \in NetworkConfigArrays
    /\ proposePc = "start"
    /\ merkleTree = NoTree
    /\ gasEstimates = <<>>
    /\ proposalRequest = NoRequest
    /\ io = <<>>
    /\ thrown = ""
    /\ DriverIdle
    /\ PackerIdle
    /\ ScriptIdle
    /\ MonitorIdle
    /\ PostIdle

\* buildNetworkConfigArray and the early return when nothing is to be executed
\* on any network.
CollectNetworkConfigs ==
    /\ proposePc = "start"
    /\ io' = Append(io, Call("buildNetworkConfigArray", 0))
    /\ proposePc' = IF IsEmpty(networkConfigArray) THEN "returned" ELSE "build"
    /\ UNCHANGED <<args, networkConfigArray, merkleTree, gasEstimates, proposalRequest, thrown>>
    /\ UNCHANGED <<vars, packerVars, scriptVars, monitorVars, postVars>>

\* makeDeploymentData, makeSphinxMerkleTree, makeDeploymentConfig.
BuildMerkleTree ==
    /\ proposePc = "build"
    /\ LET deploymentData == makeDeploymentData(networkConfigArray)
       IN  /\ io' = Append(io, Call("makeSphinxMerkleTree", 0))
           /\ \E built \in (IF MayFailEmptyBundle(deploymentData) THEN BOOLEAN ELSE {TRUE}) :
                 IF built
                 THEN /\ merkleTree' = makeSphinxMerkleTree(deploymentData)
                      /\ proposePc' = "simulate"
                      /\ UNCHANGED thrown
                 ELSE /\ Throw("EmptyBundle")
                      /\ UNCHANGED merkleTree
    /\ UNCHANGED <<args, networkConfigArray, gasEstimates, proposalRequest>>
    /\ UNCHANGED <<vars, packerVars, scriptVars, monitorVars, postVars>>

\* The simulation: getNetworkGasEstimate is called for every network with
\* actions, and the results are awaited together.
RunSimulation ==
    /\ proposePc = "simulate"
    /\ LET chains == SimulatedChains(networkConfigArray, 1)
       IN  /\ io' = io \o [k \in 1..Len(chains) |-> Call("getNetworkGasEstimate", chains[k])]
           /\ \E succeeded \in BOOLEAN :
                 IF succeeded
                 THEN /\ gasEstimates' = [k \in 1..Len(chains) |->
                                            [chainId |-> Number(chains[k]), estimatedGas |-> "gas"]]
                      /\ proposePc' = "preview"
                      /\ UNCHANGED thrown
                 ELSE /\ Throw("simulation failed")
                      /\ UNCHANGED gasEstimates
    /\ UNCHANGED <<args, networkConfigArray, merkleTree, proposalRequest>>
    /\ UNCHANGED <<vars, packerVars, scriptVars, monitorVars, postVars>>

\* Mutant: only confirm keeps the prompt away.
SkipsPrompt_ConfirmOnly(proposeArgs) == proposeArgs.confirm

\* "if (confirm || isDryRun)": the preview is printed, nobody is asked.
SkipsPrompt(proposeArgs) == proposeArgs.confirm \/ proposeArgs.isDryRun

\* getPreview: the preview is printed, or the user is asked to confirm it.
ShowPreview ==
    /\ proposePc = "preview"
    /\ IF SkipsPrompt(args)
       THEN /\ io' = IF ~args.silent THEN Append(io, Call("console.log", "preview")) ELSE io
            /\ proposePc' = "check"
            /\ UNCHANGED thrown
       ELSE /\ io' = Append(io, Call("prompt", "preview"))
            /\ \E confirmed \in BOOLEAN :
                  IF confirmed
                  THEN /\ proposePc' = "check"
                       /\ UNCHANGED thrown
                  ELSE Throw("prompt rejected")
    /\ UNCHANGED <<args, networkConfigArray, merkleTree, gasEstimates, proposalRequest>>
    /\ UNCHANGED <<vars, packerVars, scriptVars, monitorVars, postVars>>

\* The comparison of the configs across the networks.
CheckShouldBeEqual ==
    /\ proposePc = "check"
    /\ IF ~elementsEqual(ShouldBeEqual(networkConfigArray))
       THEN Throw("Detected different Safe or SphinxModule addresses for different chains")
       ELSE /\ proposePc' = "assemble"
            /\ UNCHANGED thrown
    /\ UNCHANGED <<args, networkConfigArray, merkleTree, gasEstimates, proposalRequest, io>>
    /\ UNCHANGED <<vars, packerVars, scriptVars, monitorVars, postVars>>

\* The ProposalRequest.
AssembleProposalRequest ==
    /\ proposePc = "assemble"
    /\ LET first == networkConfigArray[1]
           loop == ChainLoop(networkConfigArray, merkleTree, 1)
       IN  IF loop.threw
           THEN /\ Throw("Found multiple approval leaves")
                /\ UNCHANGED proposalRequest
           ELSE /\ proposalRequest' =
                      [built |-> TRUE,
                       chainIds |-> loop.chainIds,
                       owners |-> first.newConfig.owners,
                       threshold |-> Number(first.newConfig.threshold),
                       safeAddress |-> first.safeAddress,
                       moduleAddress |-> first.moduleAddress,
                       safeInitData |-> first.safeInitData,
                       projectDeployments |-> loop.projectDeployments,
                       gasEstimates |-> gasEstimates,
                       compilerConfigId |-> "undefined",
                       deploymentConfigId |-> "undefined",
                       tree |-> [root |-> merkleTree.root, chainStatus |-> loop.chainStatus]]
                /\ proposePc' = "finish"
                /\ UNCHANGED thrown
    /\ UNCHANGED <<args, networkConfigArray, merkleTree, gasEstimates, io>>
    /\ UNCHANGED <<vars, packerVars, scriptVars, monitorVars, postVars>>

\* The content ids storeDeploymentConfig may answer with.
ContentIds == {"contentA", "contentB"}

\* Mutant: a dry run is treated like any other run.
DryRun_Never(proposeArgs) == FALSE

\* "if (isDryRun)": nothing is stored and nothing is relayed.
DryRun(proposeArgs) == proposeArgs.isDryRun

\* Mutant: compilerConfigId is left as it was built.
WithDeploymentConfigId_Only(request, deploymentConfigId) ==
    [request EXCEPT !.deploymentConfigId = deploymentConfigId]

\* The two assignments after storeDeploymentConfig.
WithDeploymentConfigId(request, deploymentConfigId) ==
    [request EXCEPT !.deploymentConfigId = deploymentConfigId,
                    !.compilerConfigId = deploymentConfigId]

\* The end of a dry run, or storeDeploymentConfig.  The entry of io holds the
\* id the store answered with, "" when it failed.
StoreDeploymentConfig ==
    /\ proposePc = "finish"
    /\ IF DryRun(args)
       THEN /\ proposePc' = "returned"
            /\ UNCHANGED <<io, proposalRequest, thrown>>
       ELSE \/ \E deploymentConfigId \in ContentIds :
                  /\ io' = Append(io, Call("storeDeploymentConfig", deploymentConfigId))
                  /\ proposalRequest' =
                         WithDeploymentConfigId(proposalRequest, deploymentConfigId)
                  /\ proposePc' = "relay"
                  /\ UNCHANGED thrown
            \/ /\ io' = Append(io, Call("storeDeploymentConfig", ""))
               /\ Throw("store failed")
               /\ UNCHANGED proposalRequest
    /\ UNCHANGED <<args, networkConfigArray, merkleTree, gasEstimates>>
    /\ UNCHANGED <<vars, packerVars, scriptVars, monitorVars, postVars>>

\* relayProposal and the return of propose.
RelayProposal ==
    /\ proposePc = "relay"
    /\ io' = Append(io, Call("relayProposal", proposalRequest))
    /\ \E relayed \in BOOLEAN :
          IF relayed
          THEN /\ proposePc' = "returned"
               /\ UNCHANGED thrown
          ELSE Throw("relay failed")
    /\ UNCHANGED <<args, networkConfigArray, merkleTree, gasEstimates, proposalRequest>>
    /\ UNCHANGED <<vars, packerVars, scriptVars, monitorVars, postVars>>

ProposeNext ==
    \/ CollectNetworkConfigs
    \/ BuildMerkleTree
    \/ RunSimulation
    \/ ShowPreview
    \/ CheckShouldBeEqual
    \/ AssembleProposalRequest
    \/ StoreDeploymentConfig
    \/ RelayProposal

ProposeSpec == ProposeInit /\ [][ProposeNext]_proposeVars

(***************************************************************************)
(* The sizing of batches (Sphinx.sol 345-356, 396 and 416) on action lists *)
(* of mixed gas cost and on every block gas limit up to a bound, with each *)
(* batch taken as executed.                                                *)
(***************************************************************************)
MaxPacked == 3
MaxBlockGasLimit == 30
MaxMoreGas == 3

\* The outstanding actions of one phase: bundle order, one gas cost each.
PackedActions(gas) ==
    [k \in 1..Len(gas) |-> [index |-> k - 1, gas |-> gas[k]]]

PackedLists ==
    { PackedActions(gas) : gas \in UNION { [1..n -> GasValues] : n \in 0..MaxPacked } }

\* One call of findMaxBatchSize and the batch cut from its answer.
Sizing(remaining, budget, found, batch) ==
    [remaining |-> remaining, budget |-> budget, found |-> found, batch |-> batch]

NotResized == [budget |-> 0, found |-> [ok |-> FALSE, size |-> 0, index |-> NoIndex]]

PackerInit ==
    /\ packer \in [pc : {"start"}, blockGasLimit : 0..MaxBlockGasLimit,
                   filteredActions : PackedLists, bufferedGasLimit : {0},
                   executed : {0}, sized : {<<>>}, resized : {NotResized}]
    /\ DriverIdle
    /\ ProposeIdle
    /\ ScriptIdle
    /\ MonitorIdle
    /\ PostIdle

\* sphinxExecuteDeployment computes bufferedGasLimit; sphinxExecuteBatchActions
\* returns at once when there is nothing to execute.
ComputeBufferedGasLimit ==
    /\ packer.pc = "start"
    /\ packer' = [packer EXCEPT
                    !.bufferedGasLimit = BufferedGasLimit(packer.blockGasLimit),
                    !.pc = IF Len(packer.filteredActions) = 0
                           THEN "returned" ELSE "loop"]
    /\ UNCHANGED <<vars, proposeVars, scriptVars, monitorVars, postVars>>

\* One iteration of the while loop: size the batch, cut it, move on.
SizeBatch ==
    /\ packer.pc = "loop"
    /\ packer.executed < Len(packer.filteredActions)
    /\ LET remaining == inefficientSlice(packer.filteredActions, packer.executed,
                                         Len(packer.filteredActions))
           budget == BatchGasBudget(packer.bufferedGasLimit)
           found == findMaxBatchSize(remaining, budget)
           batch == BatchSlice(packer.filteredActions, packer.executed, found.size)
           executed == NextExecuted(packer.executed, found.size)
       IN  IF ~found.ok
           THEN packer' = [packer EXCEPT
                             !.sized = Append(@, Sizing(remaining, budget, found, <<>>)),
                             !.pc = "reverted"]
           ELSE packer' = [packer EXCEPT
                             !.sized = Append(@, Sizing(remaining, budget, found, batch)),
                             !.executed = executed,
                             !.pc = IF executed < Len(packer.filteredActions)
                                    THEN "loop" ELSE "returned"]
    /\ UNCHANGED <<vars, proposeVars, scriptVars, monitorVars, postVars>>

\* findMaxBatchSize again on the whole list, with a budget that is not smaller.
SizeWithMoreGas ==
    /\ packer.pc \in {"returned", "reverted"}
    /\ Len(packer.sized) > 0
    /\ \E more \in 0..MaxMoreGas :
         LET budget == packer.sized[1].budget + more
         IN  packer' = [packer EXCEPT
                          !.resized = [budget |-> budget,
                                       found |-> findMaxBatchSize(packer.filteredActions,
                                                                  budget)],
                          !.pc = "resized"]
    /\ UNCHANGED <<vars, proposeVars, scriptVars, monitorVars, postVars>>

PackerNext ==
    \/ ComputeBufferedGasLimit
    \/ SizeBatch
    \/ SizeWithMoreGas

PackerSpec == PackerInit /\ [][PackerNext]_packerVars

(***************************************************************************)
(* monitorExecution: the bundle state is polled until the bundle is no     *)
(* longer APPROVED.  The executor and the owner change the state on the    *)
(* chain meanwhile.  The spinner texts are not part of the state.          *)
(***************************************************************************)
MaxBundleActions == 3

ChugSplashBundleStatus == {"EMPTY", "PROPOSED", "APPROVED", "COMPLETED", "CANCELLED"}

BundleStates == [status : ChugSplashBundleStatus, actionsExecuted : 0..MaxBundleActions]

InsufficientFunds == "has insufficient funds to complete the deployment"
WasCancelled == "was cancelled"

MonitorInit ==
    /\ bundles \in BundleStates
    /\ monitor = [pc |-> "start", bundleState |-> [status |-> "EMPTY", actionsExecuted |-> 0],
                  result |-> "", thrown |-> ""]
    /\ DriverIdle
    /\ ProposeIdle
    /\ PackerIdle
    /\ ScriptIdle
    /\ PostIdle

\* Mutant: the loop goes on until the bundle is completed.
StillApproved_NotCompleted(status) == status # "COMPLETED"

\* The condition of the while loop.
StillApproved(status) == status = "APPROVED"

\* Mutant: the state fetched before the loop is kept.
NextBundleState_Kept(bundleState, onChain) == bundleState

\* "Get the current bundle state" at the end of an iteration.
NextBundleState(bundleState, onChain) == onChain

\* "Get the bundle state of the bundle ID."
GetBundleState ==
    /\ monitor.pc = "start"
    /\ monitor' = [monitor EXCEPT !.bundleState = bundles, !.pc = "while"]
    /\ UNCHANGED bundles
    /\ UNCHANGED <<vars, proposeVars, packerVars, scriptVars, postVars>>

\* An iteration up to getAmountToDeposit: it throws when funds are missing.
GetAmountToDeposit ==
    /\ monitor.pc = "while"
    /\ StillApproved(monitor.bundleState.status)
    /\ \E amountToDeposit \in {0, 1} :
         IF amountToDeposit > 0
         THEN monitor' = [monitor EXCEPT !.pc = "threw", !.thrown = InsufficientFunds]
         ELSE monitor' = [monitor EXCEPT !.pc = "sleep"]
    /\ UNCHANGED bundles
    /\ UNCHANGED <<vars, proposeVars, packerVars, scriptVars, postVars>>

\* "Wait for one second."
Sleep ==
    /\ monitor.pc = "sleep"
    /\ monitor' = [monitor EXCEPT !.pc = "refetch"]
    /\ UNCHANGED bundles
    /\ UNCHANGED <<vars, proposeVars, packerVars, scriptVars, postVars>>

RefetchBundleState ==
    /\ monitor.pc = "refetch"
    /\ monitor' = [monitor EXCEPT !.bundleState = NextBundleState(@, bundles),
                                  !.pc = "while"]
    /\ UNCHANGED bundles
    /\ UNCHANGED <<vars, proposeVars, packerVars, scriptVars, postVars>>

\* After the loop: the three branches on the final status.  The last one
\* ends the function without a return statement.
AfterLoop ==
    /\ monitor.pc = "while"
    /\ ~StillApproved(monitor.bundleState.status)
    /\ IF monitor.bundleState.status = "COMPLETED"
       THEN monitor' = [monitor EXCEPT !.pc = "retrieve"]
       ELSE IF monitor.bundleState.status = "CANCELLED"
       THEN monitor' = [monitor EXCEPT !.pc = "threw", !.thrown = WasCancelled]
       ELSE monitor' = [monitor EXCEPT !.pc = "returned", !.result = "undefined"]
    /\ UNCHANGED bundles
    /\ UNCHANGED <<vars, proposeVars, packerVars, scriptVars, postVars>>

\* getFinalDeploymentTxnHash and the return of the hash.
GetFinalDeploymentTxnHash ==
    /\ monitor.pc = "retrieve"
    /\ \E found \in BOOLEAN :
         IF found
         THEN monitor' = [monitor EXCEPT !.pc = "returned", !.result = "finalDeploymentTxnHash"]
         ELSE monitor' = [monitor EXCEPT !.pc = "threw", !.thrown = "getFinalDeploymentTxnHash failed"]
    /\ UNCHANGED bundles
    /\ UNCHANGED <<vars, proposeVars, packerVars, scriptVars, postVars>>

\* The executor executes an action of the approved bundle, or completes it.
ExecutorActs ==
    /\ monitor.pc # "off"
    /\ bundles.status = "APPROVED"
    /\ \/ /\ bundles.actionsExecuted < MaxBundleActions
          /\ bundles' = [bundles EXCEPT !.actionsExecuted = @ + 1]
       \/ bundles' = [bundles EXCEPT !.status = "COMPLETED"]
    /\ UNCHANGED monitor
    /\ UNCHANGED <<vars, proposeVars, packerVars, scriptVars, postVars>>

\* The owner cancels the approved bundle.
OwnerCancels ==
    /\ monitor.pc # "off"
    /\ bundles.status = "APPROVED"
    /\ bundles' = [bundles EXCEPT !.status = "CANCELLED"]
    /\ UNCHANGED monitor
    /\ UNCHANGED <<vars, proposeVars, packerVars, scriptVars, postVars>>

MonitorStep ==
    \/ GetBundleState
    \/ GetAmountToDeposit
    \/ Sleep
    \/ RefetchBundleState
    \/ AfterLoop
    \/ GetFinalDeploymentTxnHash

MonitorNext ==
    \/ MonitorStep
    \/ ExecutorActs
    \/ OwnerCancels

MonitorSpec == MonitorInit /\ [][MonitorNext]_monitorVars

\* Every awaited call of monitorExecution resolves: the function is never
\* suspended forever.
MonitorFairSpec == MonitorSpec /\ WF_monitorVars(MonitorStep)

(***************************************************************************)
(* The sphinx modifier and _sphinxDeployContract: the user's run()         *)
(* function deploys contracts by reference name.  A revert undoes every    *)
(* storage write of the call of run() it happens in.                       *)
(***************************************************************************)
MaxRuns == 2

ReferenceNames == {"A", "B"}
UserSalts == {0, 1}
CallerModes == {"None", "Broadcast", "RecurrentBroadcast", "Prank", "RecurrentPrank"}
ScriptModes == {"Collect", "Default"}

\* SphinxUtils.arrayContainsString
arrayContainsString(arr, str) == \E k \in 1..Len(arr) : arr[k] = str

\* The three requires on the caller mode at the head of the modifier.
CallerModeAllowed(callerMode, mode) ==
    /\ callerMode # "Broadcast"
    /\ callerMode # "RecurrentBroadcast" \/ mode = "Collect"
    /\ callerMode # "Prank"

\* Mutant: the names of the previous run are left in place.
ResetReferenceNames_Kept(referenceNames) == referenceNames

\* "delete referenceNames;"
ResetReferenceNames(referenceNames) == <<>>

\* Mutant: a name is never taken as used.
ReferenceNameUsed_Never(referenceNames, referenceName) == FALSE

\* The argument of the require on the reference name, negation apart.
ReferenceNameUsed(referenceNames, referenceName) ==
    arrayContainsString(referenceNames, referenceName)

\* keccak256(abi.encode(_referenceName, _userSalt)) decides the address.
Create3Address(referenceName, userSalt) == <<referenceName, userSalt>>

\* The storage a revert restores.
ScriptStorage(s) == [referenceNames |-> s.referenceNames, code |-> s.code]

NoDeploy == [referenceName |-> "", userSalt |-> 0, outcome |-> ""]

ScriptInit ==
    /\ script \in [pc : {"idle"},
                   sphinxMode : ScriptModes,
                   sphinxModifierEnabled : {FALSE},
                   referenceNames : {<<>>},
                   code : {{}},
                   saved : {[referenceNames |-> <<>>, code |-> {}]},
                   thisRun : {{}},
                   runs : {0},
                   last : {NoDeploy}]
    /\ DriverIdle
    /\ ProposeIdle
    /\ PackerIdle
    /\ MonitorIdle
    /\ PostIdle

\* The state after a revert inside a call of run().
ScriptReverted(referenceName, userSalt, why) ==
    [script EXCEPT !.pc = "idle",
                   !.sphinxModifierEnabled = FALSE,
                   !.referenceNames = script.saved.referenceNames,
                   !.code = script.saved.code,
                   !.runs = IF script.pc = "running" THEN @ + 1 ELSE @,
                   !.last = [referenceName |-> referenceName, userSalt |-> userSalt,
                             outcome |-> why]]

\* The head of the modifier, up to the start of the user's run().
SphinxModifierBegin ==
    /\ script.pc = "idle"
    /\ script.runs < MaxRuns
    /\ \E callerMode \in CallerModes, valid \in BOOLEAN :
         IF CallerModeAllowed(callerMode, script.sphinxMode) /\ valid
         THEN script' = [script EXCEPT
                           !.pc = "running",
                           !.sphinxModifierEnabled = TRUE,
                           !.saved = ScriptStorage(script),
                           !.referenceNames = ResetReferenceNames(@),
                           !.thisRun = {},
                           !.last = NoDeploy]
         ELSE script' = [script EXCEPT !.runs = @ + 1, !.last = NoDeploy]
    /\ UNCHANGED <<vars, proposeVars, packerVars, monitorVars, postVars>>

\* _sphinxDeployContract, called by the user's run() or outside of it.
sphinxDeployContract ==
    /\ script.pc \in {"idle", "running"}
    /\ \E referenceName \in ReferenceNames, userSalt \in UserSalts,
          fromManager \in BOOLEAN, collected \in BOOLEAN, hasCode \in BOOLEAN :
         IF ~script.sphinxModifierEnabled
         THEN script' = [script EXCEPT
                           !.last = [referenceName |-> referenceName,
                                     userSalt |-> userSalt, outcome |-> "modifier"]]
         ELSE IF ~fromManager
         THEN script' = ScriptReverted(referenceName, userSalt, "callerMode")
         ELSE IF ReferenceNameUsed(script.referenceNames, referenceName)
         THEN script' = ScriptReverted(referenceName, userSalt, "duplicate")
         ELSE IF Create3Address(referenceName, userSalt) \in script.code
         THEN script' = ScriptReverted(referenceName, userSalt, "exists")
         ELSE IF ~collected
         THEN script' = ScriptReverted(referenceName, userSalt, "collector")
         ELSE script' = [script EXCEPT
                           !.code = IF hasCode
                                    THEN @ \cup {Create3Address(referenceName, userSalt)}
                                    ELSE @,
                           !.referenceNames = Append(@, referenceName),
                           !.thisRun = @ \cup {referenceName},
                           !.last = [referenceName |-> referenceName,
                                     userSalt |-> userSalt, outcome |-> "deployed"]]
    /\ UNCHANGED <<vars, proposeVars, packerVars, monitorVars, postVars>>

\* The tail of the modifier, after the user's run() returned.
SphinxModifierEnd ==
    /\ script.pc = "running"
    /\ script' = [script EXCEPT !.pc = "idle",
                                !.sphinxModifierEnabled = FALSE,
                                !.runs = @ + 1]
    /\ UNCHANGED <<vars, proposeVars, packerVars, monitorVars, postVars>>

ScriptNext ==
    \/ SphinxModifierBegin
    \/ sphinxDeployContract
    \/ SphinxModifierEnd

ScriptSpec == ScriptInit /\ [][ScriptNext]_scriptVars

(***************************************************************************)
(* postExecutionActions: what is done for the project owner after a bundle *)
(* has been executed.                                                      *)
(***************************************************************************)
AddressZero == "0x0"
Signers == {"alice", "bob"}
HardhatChainId == 31337

\* A call of a collaborator, with its argument.
PostCall(fn, arg) == [fn |-> fn, arg |-> arg]

PostInit ==
    /\ post \in [pc : {"start"},
                 signer : Signers,
                 owner : Signers \cup {AddressZero},
                 newProjectOwner : Signers \cup {AddressZero, "undefined"},
                 ownerBalance : {0, 1},
                 chainId : {1, HardhatChainId},
                 currProjectOwner : {""},
                 io : {<<>>},
                 thrown : {""}]
    /\ DriverIdle
    /\ ProposeIdle
    /\ PackerIdle
    /\ ScriptIdle
    /\ MonitorIdle

\* Mutant: anybody may act for the owner.
SignerIsOwner_Always(signerAddress, currProjectOwner) == TRUE

\* "if ((await signer.getAddress()) === currProjectOwner)"
SignerIsOwner(signerAddress, currProjectOwner) == signerAddress = currProjectOwner

\* Mutant: ownership is transferred whenever a new owner is given.
ChangesOwner_WheneverGiven(newProjectOwner, currProjectOwner) ==
    newProjectOwner # "undefined"

\* "if (newProjectOwner !== undefined && newProjectOwner !== currProjectOwner)"
ChangesOwner(newProjectOwner, currProjectOwner) ==
    newProjectOwner # "undefined" /\ newProjectOwner # currProjectOwner

\* "We must call a separate function if ownership is being transferred to address(0)."
OwnershipCall(newProjectOwner) ==
    IF newProjectOwner = AddressZero
    THEN PostCall("renounceOwnership", "")
    ELSE PostCall("transferOwnership", newProjectOwner)

\* getProjectOwnerAddress and the comparison with the signer.
GetProjectOwnerAddress ==
    /\ post.pc = "start"
    /\ post' = [post EXCEPT
                  !.currProjectOwner = post.owner,
                  !.io = Append(@, PostCall("getProjectOwnerAddress", "")),
                  !.pc = IF SignerIsOwner(post.signer, post.owner)
                         THEN "balance" ELSE "artifacts"]
    /\ UNCHANGED <<vars, proposeVars, packerVars, scriptVars, monitorVars>>

\* getOwnerWithdrawableAmount.
GetOwnerWithdrawableAmount ==
    /\ post.pc = "balance"
    /\ post' = [post EXCEPT
                  !.io = Append(@, PostCall("getOwnerWithdrawableAmount", "")),
                  !.pc = IF post.ownerBalance > 0 THEN "withdraw" ELSE "ownership"]
    /\ UNCHANGED <<vars, proposeVars, packerVars, scriptVars, monitorVars>>

\* withdrawOwnerETH and the wait for its receipt.
WithdrawOwnerETH ==
    /\ post.pc = "withdraw"
    /\ \E mined \in BOOLEAN :
         LET called == [post EXCEPT !.io = Append(@, PostCall("withdrawOwnerETH", ""))]
         IN  post' = IF mined
                     THEN [called EXCEPT !.pc = "ownership"]
                     ELSE [called EXCEPT !.pc = "threw", !.thrown = "withdrawOwnerETH failed"]
    /\ UNCHANGED <<vars, proposeVars, packerVars, scriptVars, monitorVars>>

\* The transfer of the ownership, when one is due.
TransferOwnership ==
    /\ post.pc = "ownership"
    /\ IF ChangesOwner(post.newProjectOwner, post.currProjectOwner)
       THEN \E mined \in BOOLEAN :
              LET called == [post EXCEPT !.io = Append(@, OwnershipCall(post.newProjectOwner))]
              IN  post' = IF mined
                          THEN [called EXCEPT !.owner = post.newProjectOwner,
                                              !.pc = "artifacts"]
                          ELSE [called EXCEPT !.pc = "threw",
                                              !.thrown = "ownership transfer failed"]
       ELSE post' = [post EXCEPT !.pc = "artifacts"]
    /\ UNCHANGED <<vars, proposeVars, packerVars, scriptVars, monitorVars>>

\* The snapshot id on the hardhat network, then the deployment artifacts.
WriteDeploymentArtifacts ==
    /\ post.pc = "artifacts"
    /\ post' = [post EXCEPT
                  !.io = @ \o <<PostCall("getChainId", "")>>
                           \o (IF post.chainId = HardhatChainId
                               THEN <<PostCall("writeHardhatSnapshotId", "")>> ELSE <<>>)
                           \o <<PostCall("createDeploymentArtifacts", "finalDeploymentTxnHash")>>,
                  !.pc = "returned"]
    /\ UNCHANGED <<vars, proposeVars, packerVars, scriptVars, monitorVars>>

PostNext ==
    \/ GetProjectOwnerAddress
    \/ GetOwnerWithdrawableAmount
    \/ WithdrawOwnerETH
    \/ TransferOwnership
    \/ WriteDeploymentArtifacts

PostSpec == PostInit /\ [][PostNext]_postVars

(***************************************************************************)
(* Properties.                                                             *)
(***************************************************************************)
IsBatch(c) == c.fn \in {"executeInitialActions", "setStorage"}

Last(seq) == seq[Len(seq)]

Count(fn) == Cardinality({k \in 1..Len(calls) : calls[k].fn = fn})

FailureMessage == "failed to execute deployment because the following action reverted"

\* C1: every action a batch carries has an index that is not below the
\* actionsExecuted the manager held when sphinxExecuteBatchActions started; no
\* action below it is submitted again.
C1_IdempotentResume ==
    \A k \in 1..Len(calls) :
        IsBatch(calls[k]) =>
            \A j \in 1..Len(calls[k].indices) : calls[k].indices[j] >= calls[k].startExecuted

C1_Witness ==
    \E k \in 1..Len(calls) :
        /\ calls[k].fn = "executeInitialActions"
        /\ calls[k].ok
        /\ calls[k].startExecuted > 0
        /\ Len(calls[k].indices) > 0

\* The first not yet executed index of the list a phase works on.
FirstOutstanding(fn, startExecuted) ==
    LET split == splitActions(bundleInfo.actions)
        list == IF fn = "setStorage" THEN split.setStorageActions ELSE split.initialActions
        left == {list[k].index : k \in 1..Len(list)} \cap
                {x \in 0..Len(bundleInfo.actions) : x >= startExecuted}
    IN  CHOOSE x \in left : \A y \in left : x <= y

\* C2: the batches of one run of sphinxExecuteBatchActions are non-empty runs of
\* consecutive indices, the first starts at the first outstanding action, and
\* each later one starts right where the one before it ended.
C2_ContiguousBatches ==
    \A k \in 1..Len(calls) :
        IsBatch(calls[k]) =>
            /\ Len(calls[k].indices) >= 1
            /\ \A j \in 1..(Len(calls[k].indices) - 1) :
                  calls[k].indices[j + 1] = calls[k].indices[j] + 1
            /\ IF k > 1 /\ calls[k - 1].fn = calls[k].fn
               THEN calls[k].indices[1] = Last(calls[k - 1].indices) + 1
               ELSE calls[k].indices[1] = FirstOutstanding(calls[k].fn, calls[k].startExecuted)

C2_Witness ==
    \E k \in 2..Len(calls) :
        /\ calls[k].fn = "setStorage"
        /\ calls[k - 1].fn = "setStorage"
        /\ calls[k].ok
        /\ calls[k].indices[1] = Last(calls[k - 1].indices) + 1

PhaseRank(fn) ==
    CASE fn = "executeInitialActions" -> 1
      [] fn = "initiateUpgrade" -> 2
      [] fn = "setStorage" -> 3
      [] fn = "finalizeUpgrade" -> 4
      [] OTHER -> 0

\* C3: the calls of sphinxExecuteDeployment come in the order initial batches,
\* initiateUpgrade, set-storage batches, finalizeUpgrade; a set-storage batch
\* or finalizeUpgrade comes only after the one initiateUpgrade; and a
\* deployment that the initial actions neither failed nor completed and that
\* is reported as executed has had exactly one initiateUpgrade and ends with
\* its one finalizeUpgrade.
C3_PhaseOrder ==
    /\ \A j, k \in 1..Len(calls) :
          (j < k /\ PhaseRank(calls[j].fn) > 0 /\ PhaseRank(calls[k].fn) > 0)
              => PhaseRank(calls[j].fn) <= PhaseRank(calls[k].fn)
    /\ Count("initiateUpgrade") <= 1
    /\ Count("finalizeUpgrade") <= 1
    /\ \A k \in 1..Len(calls) :
          calls[k].fn \in {"setStorage", "finalizeUpgrade"} =>
              \E j \in 1..(k - 1) : calls[j].fn = "initiateUpgrade" /\ calls[j].ok
    /\ (outcome.executionSuccess /\ ~InitialActionsFailed(ed.status)
            /\ ed.status # "COMPLETED") =>
          /\ Count("initiateUpgrade") = 1
          /\ Count("finalizeUpgrade") = 1
          /\ Last(calls).fn = "finalizeUpgrade"

C3_Witness ==
    /\ pc = "deployed"
    /\ outcome.executionSuccess
    /\ Len(calls) > 0
    /\ Last(calls).fn = "finalizeUpgrade"
    /\ Count("setStorage") = 2
    /\ Count("executeInitialActions") = 2

\* C4 (as claimed): once a transaction has left the deployment FAILED, the
\* driver submits nothing more on that network.
C4_NothingAfterFailed ==
    \A k \in 1..(Len(calls) - 1) : calls[k].statusAfter # "FAILED"

\* C5 (as claimed): when the driver ends in failure because an action
\* reverted, the action it reports is the one that reverted.
C5_ReportsFailedAction ==
    (pc = "reverted" /\ outcome.message = FailureMessage)
        => outcome.reported = Executable(bundleInfo)

\* C6: sphinxExecuteDeployment reports success only when the manager holds
\* COMPLETED for the bundle's deployment.
C6_SuccessOnlyIfCompleted ==
    outcome.executionSuccess => chain.deployments[BundleId].status = "COMPLETED"

C6_Witness ==
    /\ pc = "deployed"
    /\ outcome.executionSuccess
    /\ bundleInfo.numTargets = 0
    /\ Count("executeInitialActions") = 3

C8_CancellationSurfaced ==
    (pc \in {"deployed", "returned", "reverted"}
        /\ chain.deployments[BundleId].status = "CANCELLED")
        => outcome.message = "Deployment was cancelled"

\* C9: an approval that meets another active deployment fails with
\* ConflictingActiveDeployment, ends the run with that error, and no batch of
\* the bundle is submitted.
C9_ConflictStopsRun ==
    \A k \in 1..Len(calls) :
        (calls[k].fn = "approveDeployment" /\ ~calls[k].ok) =>
            /\ calls[k].err = "ConflictingActiveDeployment"
            /\ k = Len(calls)
            /\ pc = "reverted"
            /\ outcome.message = "ConflictingActiveDeployment"
            /\ \A j \in 1..Len(calls) : ~IsBatch(calls[j])
            /\ chain.deployments[BundleId] = EmptyState

C9_Witness ==
    /\ pc = "reverted"
    /\ outcome.message = "ConflictingActiveDeployment"
    /\ chain.activeDeploymentId = OtherId
    /\ Len(calls) = 3

\* C10 (as claimed): a failed execution on one network leaves the remaining
\* networks to be driven: the run ends only when all of them have been.
C10_SiblingsStillDriven ==
    (pc = "reverted" /\ outcome.message = FailureMessage) => i = numNetworks

\* C11: a network whose bundle has nothing to execute is left as it is:
\* sphinxDeployOnNetwork returns, without an error and without a call that
\* changes the state of the network (no registration, no auth leaf, no claim,
\* no batch).
C11_EmptyBundleSkipped ==
    [][(pc = "sphinxDeployOnNetwork" /\ Len(bundleInfo.authLeafs) = 0) =>
          /\ pc' = "deployed"
          /\ outcome'.result = "returned"
          /\ calls' = <<>>
          /\ chain' = chain]_vars

C11_Witness ==
    /\ pc = "deployed"
    /\ Len(bundleInfo.authLeafs) = 0
    /\ outcome.message = "Nothing to execute"
    /\ ~chain.registered
    /\ i = 2

\* The positions of networkConfigArray that hold a network with actions.
WithActions == {k \in 1..Len(networkConfigArray) : networkConfigArray[k].actionInputs > 0}

Called(fn) == \E k \in 1..Len(io) : io[k].fn = fn

\* C12: in the ProposalRequest, chainIds and tree.chainStatus name the same
\* chains position by position, and these are exactly the networks with
\* actions, each once, in the order of networkConfigArray.
C12_ChainsWithActions ==
    proposalRequest.built =>
        LET ids == proposalRequest.chainIds
            status == proposalRequest.tree.chainStatus
        IN  /\ Len(ids) = Len(status)
            /\ \A j \in 1..Len(ids) : ids[j] = status[j].chainId
            /\ {ids[j] : j \in 1..Len(ids)} =
                  {Number(networkConfigArray[k].chainId) : k \in WithActions}
            /\ Len(ids) = Cardinality(WithActions)
            /\ \A j1, j2 \in 1..Len(ids) :
                  j1 < j2 => \E k1, k2 \in WithActions :
                                /\ k1 < k2
                                /\ Number(networkConfigArray[k1].chainId) = ids[j1]
                                /\ Number(networkConfigArray[k2].chainId) = ids[j2]

C12_Witness ==
    /\ proposePc = "returned"
    /\ proposalRequest.built
    /\ Len(networkConfigArray) = 2
    /\ networkConfigArray[1].actionInputs = 0
    /\ networkConfigArray[2].actionInputs = 2
    /\ networkConfigArray[2].chainId = "5"
    /\ proposalRequest.chainIds = <<5>>
    /\ proposalRequest.tree.chainStatus = <<[chainId |-> 5, numLeaves |-> 3]>>

\* Two networks differ in a field that has to be the same on all of them.
ConfigsDiffer ==
    \E j, k \in 1..Len(networkConfigArray) :
        \/ networkConfigArray[j].newConfig # networkConfigArray[k].newConfig
        \/ networkConfigArray[j].safeAddress # networkConfigArray[k].safeAddress
        \/ networkConfigArray[j].moduleAddress # networkConfigArray[k].moduleAddress
        \/ networkConfigArray[j].safeInitData # networkConfigArray[k].safeInitData

\* C13 (as claimed): when the configs differ between two networks, propose
\* does not return normally, and neither stores nor relays.
C13_DivergentConfigsFail ==
    ConfigsDiffer =>
        /\ proposePc # "returned"
        /\ ~Called("storeDeploymentConfig")
        /\ ~Called("relayProposal")

\* C13 (amended): when the configs differ between two networks, propose
\* neither stores nor relays and builds no ProposalRequest, and it ends with an
\* error unless no network has anything to execute, when it returns its empty
\* result.
C13_DivergentConfigsRejected ==
    ConfigsDiffer =>
        /\ ~Called("storeDeploymentConfig")
        /\ ~Called("relayProposal")
        /\ ~proposalRequest.built
        /\ proposePc = "returned" => IsEmpty(networkConfigArray)
        /\ ~IsEmpty(networkConfigArray) => proposePc # "returned"

C13_Witness ==
    /\ proposePc = "threw"
    /\ thrown = "Detected different Safe or SphinxModule addresses for different chains"
    /\ Len(networkConfigArray) = 2
    /\ networkConfigArray[1].newConfig.threshold # networkConfigArray[2].newConfig.threshold
    /\ networkConfigArray[1].safeAddress = networkConfigArray[2].safeAddress
    /\ ~args.isDryRun

\* C14 (as claimed): when the configs differ, propose ends before it has
\* started the simulation of any network and before it has prompted the user.
C14_FailsBeforeSimulation ==
    ConfigsDiffer =>
        /\ ~Called("getNetworkGasEstimate")
        /\ ~Called("prompt")

\* C15: whenever the batch loop is about to size and submit a batch, the first
\* action it has not yet counted as executed is the one the manager will run
\* next (its index is the manager's actionsExecuted), and a batch that went
\* through has advanced the manager's actionsExecuted by exactly its size.
C15_ProgressMatchesChain ==
    /\ pc = "batchLoop" =>
          /\ ba.executed < Len(ba.filteredActions)
          /\ ba.filteredActions[ba.executed + 1].index =
                deployments(chain, ba.activeDeploymentId).actionsExecuted
    /\ \A k \in 1..Len(calls) :
          (IsBatch(calls[k]) /\ calls[k].ok /\ calls[k].statusAfter # "FAILED") =>
              calls[k].executedAfter = calls[k].indices[1] + Len(calls[k].indices)

C15_Witness ==
    /\ pc = "batchLoop"
    /\ ba.executed = 2
    /\ ba.startExecuted = 0
    /\ Len(calls) > 0
    /\ Last(calls).fn = "executeInitialActions"
    /\ Last(calls).indices = <<0, 1>>
    /\ Last(calls).ok

\* C16 (as claimed): the status a decision is taken on was read from the
\* manager after the last transaction the driver submitted, and is the status
\* the manager holds at that moment.
C16_DecidesOnFetchedState ==
    /\ pc = "execute" => dn.fetchedAt = Len(calls)
    /\ pc = "afterInitial" => ed.status = chain.deployments[BundleId].status

\* C17: a run that finds the bundle's deployment COMPLETED returns at once,
\* with the note that the deployment was already completed, and submits no
\* auth leaf, no claimDeployment, no batch, no initiateUpgrade and no
\* finalizeUpgrade; the deployment stays COMPLETED.
C17_CompletedIsNoOp ==
    dn.status = "COMPLETED" =>
        /\ pc \in {"deployed", "returned"}
        /\ outcome.result = "returned"
        /\ outcome.message = "Deployment was already completed"
        /\ \A k \in 1..Len(calls) : calls[k].fn = "authFactory.deploy"
        /\ chain.deployments[BundleId].status = "COMPLETED"

C17_Witness ==
    /\ pc = "returned"
    /\ dn.status = "COMPLETED"
    /\ Len(bundleInfo.actions) >= 2
    /\ bundleInfo.numTargets = 1
    /\ calls = <<>>

\* C18 (as claimed): a run that finds the deployment already PROXIES_INITIATED
\* or SET_STORAGE_ACTIONS_EXECUTED does not submit initiateUpgrade again.
C18_OneShotNotResubmitted ==
    \A k \in 1..Len(calls) :
        calls[k].fn = "initiateUpgrade" =>
            dn.status \notin {"PROXIES_INITIATED", "SET_STORAGE_ACTIONS_EXECUTED"}

StatusRank(status) ==
    CASE status = "EMPTY" -> 0
      [] status = "APPROVED" -> 1
      [] status = "INITIAL_ACTIONS_EXECUTED" -> 2
      [] status = "PROXIES_INITIATED" -> 3
      [] status = "SET_STORAGE_ACTIONS_EXECUTED" -> 4
      [] status = "COMPLETED" -> 5
      [] OTHER -> 6

Forward(before, after) ==
    /\ after.actionsExecuted >= before.actionsExecuted
    /\ \/ after.status = before.status
       \/ /\ before.status \notin {"COMPLETED", "FAILED", "CANCELLED"}
          /\ StatusRank(after.status) > StatusRank(before.status)

\* C19: while the driver works on one network, every step leaves the status of
\* the bundle's deployment where it was or moves it forward in the order EMPTY,
\* APPROVED, INITIAL_ACTIONS_EXECUTED, PROXIES_INITIATED,
\* SET_STORAGE_ACTIONS_EXECUTED, COMPLETED (or into FAILED or CANCELLED), and
\* never lowers actionsExecuted.
C19_StatusMonotonic ==
    [][(pc # "loop" /\ pc' # "loop") =>
          Forward(chain.deployments[BundleId], chain'.deployments[BundleId])]_vars

C19_Witness ==
    /\ pc = "deployed"
    /\ chain.deployments[BundleId] = [status |-> "COMPLETED", actionsExecuted |-> 4]
    /\ Count("approveDeployment") = 1
    /\ Count("initiateUpgrade") = 1
    /\ Count("finalizeUpgrade") = 1
    /\ Count("setStorage") = 2

\* The number of actions of the bundle the packer admits per batch on the
\* selected network (the actions of one bundle carry the same gas).
BatchCapacity ==
    BatchGasBudget(BufferedGasLimit(chain.gaslimit)) \div bundleInfo.actions[1].gas

\* The index after the last action of the list a phase works on.
PhaseEnd(fn) ==
    IF fn = "setStorage" THEN Len(bundleInfo.actions) ELSE NumInitial(bundleInfo)

\* The actions that were outstanding when the first batch of a phase was sized.
Outstanding(fn) ==
    LET ks == {k \in 1..Len(calls) : calls[k].fn = fn}
    IN  IF ks = {} THEN 0
        ELSE PhaseEnd(fn) - calls[CHOOSE k \in ks : \A j \in ks : k <= j].indices[1]

CeilDiv(n, b) == (n + b - 1) \div b

\* C20: with b actions admitted per batch and n outstanding, every batch
\* carries b actions, or what is left when less than b are, a batch that went
\* through advances actionsExecuted by its size, and a run reported as
\* executed has taken ceil(n / b) batches in each phase and left the
\* deployment COMPLETED.
C20_RoundsOfCapacity ==
    /\ \A k \in 1..Len(calls) :
          IsBatch(calls[k]) =>
              /\ Len(calls[k].indices) =
                    Min(BatchCapacity, PhaseEnd(calls[k].fn) - calls[k].indices[1])
              /\ (calls[k].ok /\ calls[k].statusAfter # "FAILED") =>
                    calls[k].executedAfter = calls[k].indices[1] + Len(calls[k].indices)
    /\ outcome.executionSuccess =>
          /\ chain.deployments[BundleId].status = "COMPLETED"
          /\ \A fn \in {"executeInitialActions", "setStorage"} :
                Count(fn) = CeilDiv(Outstanding(fn), BatchCapacity)

C20_Witness ==
    /\ pc = "deployed"
    /\ outcome.executionSuccess
    /\ BatchCapacity = 2
    /\ Len(calls) >= 3
    /\ calls[Len(calls) - 1].fn = "executeInitialActions"
    /\ calls[Len(calls) - 1].indices = <<0, 1>>
    /\ calls[Len(calls) - 1].executedAfter = 2
    /\ Last(calls).indices = <<2>>
    /\ Last(calls).executedAfter = 3
    /\ chain.deployments[BundleId].status = "COMPLETED"

(***************************************************************************)
(* The sizing of batches.                                                  *)
(***************************************************************************)
Sized == { packer.sized[k] : k \in 1..Len(packer.sized) }

\* C21: every batch the driver cuts is the prefix of the outstanding actions
\* that findMaxBatchSize admitted; its simulated gas stays within the budget,
\* and, unless it exhausts the outstanding actions, the prefix one action
\* longer exceeds the budget.
C21_BatchIsLargestFit ==
    \A s \in Sized :
        s.found.ok =>
            /\ s.found.size \in 1..Len(s.remaining)
            /\ s.batch = SubSeq(s.remaining, 1, s.found.size)
            /\ SimulatedGas(s.batch) <= s.budget
            /\ Len(s.batch) < Len(s.remaining) =>
                 SimulatedGas(SubSeq(s.remaining, 1, Len(s.batch) + 1)) > s.budget

\* A batch of two actions of different cost that stops short of a third.
C21_Witness ==
    \E s \in Sized :
        /\ s.found.ok
        /\ Len(s.remaining) = 3
        /\ Len(s.batch) = 2
        /\ s.batch[1].gas # s.batch[2].gas

\* C22: for the same outstanding actions, a budget that is not smaller never
\* yields a smaller batch (and never fails where the smaller budget succeeded).
C22_MoreGasNeverShrinksBatch ==
    packer.pc = "resized" =>
        /\ packer.resized.budget >= packer.sized[1].budget
        /\ packer.sized[1].found.ok =>
             /\ packer.resized.found.ok
             /\ packer.resized.found.size >= packer.sized[1].found.size

\* The larger budget admits a strictly larger batch.
C22_Witness ==
    /\ packer.pc = "resized"
    /\ packer.sized[1].found.ok
    /\ packer.resized.budget > packer.sized[1].budget
    /\ packer.resized.found.size > packer.sized[1].found.size

\* C24 as stated: the budget is at least 20% below the gas forwarded with the
\* batch, and both are at most the block gas limit.
C24_BudgetTwentyPercentBelow ==
    \A s \in Sized :
        /\ 5 * s.budget <= 4 * packer.bufferedGasLimit
        /\ s.budget <= packer.blockGasLimit
        /\ packer.bufferedGasLimit <= packer.blockGasLimit

\* C24: the budget is 20% below the gas forwarded with the batch up to the
\* rounding of the integer division (never below 80% of it, and less than one
\* unit of gas above 80%); the forwarded gas is at most 60% of the block gas
\* limit; every batch of a run is sized with the same budget.
C24_BudgetBelowUpToRounding ==
    \A s \in Sized :
        /\ 4 * packer.bufferedGasLimit <= 5 * s.budget
        /\ 5 * s.budget < 4 * packer.bufferedGasLimit + 5
        /\ s.budget <= packer.bufferedGasLimit
        /\ 5 * packer.bufferedGasLimit <= 3 * packer.blockGasLimit
        /\ packer.bufferedGasLimit <= packer.blockGasLimit
        /\ s.budget = packer.sized[1].budget

\* A block gas limit whose forwarded gas is not a multiple of five: the
\* budget is 5 of 6, less than 20% below, and sizes two batches.
C24_Witness ==
    /\ packer.blockGasLimit = 10
    /\ packer.bufferedGasLimit = 6
    /\ Len(packer.sized) = 2
    /\ \A s \in Sized : s.budget = 5

\* The outstanding actions of the phase sphinxExecuteBatchActions is entered for.
OutstandingAtEntry ==
    LET split == splitActions(bundleInfo.actions)
        bundledActions == IF ba.isSetStorageActionArray
                          THEN split.setStorageActions ELSE split.initialActions
    IN  removeExecutedActions(bundledActions,
                              deployments(chain, chain.activeDeploymentId).actionsExecuted)

\* The first action the next batch would hold, and the budget it is sized with.
FirstRemaining == ba.filteredActions[ba.executed + 1]
BudgetOnChain == BatchGasBudget(BufferedGasLimit(chain.gaslimit))

NoBatchFits == "Unable to find a batch size that does not exceed the gas budget"

\* C23: with no outstanding action sphinxExecuteBatchActions submits nothing
\* and returns the status the manager holds, with index 0; when the first
\* remaining action alone exceeds the budget the run fails, naming that
\* action's index, and no batch is submitted; no batch is ever empty.
C23_SizingEdgeCases ==
    /\ [](/\ \A k \in 1..Len(calls) : IsBatch(calls[k]) => Len(calls[k].indices) >= 1
          /\ outcome.message = NoBatchFits =>
               /\ pc = "reverted"
               /\ outcome.reported = FirstRemaining.index
               /\ FirstRemaining.gas > BudgetOnChain)
    /\ [][/\ (pc = "batchStart" /\ Len(OutstandingAtEntry) = 0) =>
               /\ calls' = calls
               /\ pc' \in {"afterInitial", "afterSetStorage"}
               /\ ~ba.isSetStorageActionArray =>
                    /\ ed'.status = deployments(chain, chain.activeDeploymentId).status
                    /\ ed'.failedActionIndex = 0
          /\ (pc = "batchLoop" /\ FirstRemaining.gas > BudgetOnChain) =>
               /\ calls' = calls
               /\ outcome'.message = NoBatchFits]_vars

\* The second action of a resumed deployment does not fit the budget.
C23_Witness ==
    /\ outcome.message = NoBatchFits
    /\ outcome.reported = 1
    /\ FirstRemaining.gas = 3
    /\ BudgetOnChain = 2

(***************************************************************************)
(* The Merkle tree of a proposal.                                          *)
(***************************************************************************)
\* C26: for every leaf of the tree propose built, APPROVE and EXECUTE leaves
\* alike, the leaf's proof applied to the leaf's hash gives the root.
C26_ProofsVerify ==
    merkleTree # NoTree =>
        \A k \in 1..Len(merkleTree.leavesWithProofs) :
            LET l == merkleTree.leavesWithProofs[k]
            IN  ProcessProof(LeafHash(l.leaf), l.proof) = merkleTree.root

\* A tree over two networks with five leaves: the last leaf has no neighbour
\* below the root and a proof of one sibling, the others proofs of three.
C26_Witness ==
    /\ merkleTree # NoTree
    /\ Len(merkleTree.leavesWithProofs) = 5
    /\ \E k \in 1..5 : /\ merkleTree.leavesWithProofs[k].leaf.leafType = "EXECUTE"
                       /\ Len(merkleTree.leavesWithProofs[k].proof) = 1
    /\ \E k \in 1..5 : /\ merkleTree.leavesWithProofs[k].leaf.leafType = "APPROVE"
                       /\ Len(merkleTree.leavesWithProofs[k].proof) = 3

(***************************************************************************)
(* The readable actions and the failure the user sees.                     *)
(***************************************************************************)
\* C27: on every chain the indices of the bundle's actions are 0..length-1 in
\* order, and position i of the human-readable action list describes the
\* action with index i: the entry the driver looks up for a failed action
\* index carries that index.
C27_IndexDensity ==
    /\ Len(bundleInfo.humanReadableActions) = Len(bundleInfo.actions)
    /\ \A k \in 1..Len(bundleInfo.actions) :
        /\ bundleInfo.actions[k].index = k - 1
        /\ bundleInfo.humanReadableActions[k].actionIndex = bundleInfo.actions[k].index
        /\ bundleInfo.humanReadableActions[k].reason
             = prettyFunctionCall(ActionInputs(Len(bundleInfo.actions))[k].decodedAction)
    /\ (pc = "reverted" /\ outcome.message = FailureMessage) =>
         outcome.reported = ed.failedActionIndex

\* The driver looked up the readable action of a failed action that is not
\* the first of the bundle.
C27_Witness ==
    /\ pc = "reverted"
    /\ outcome.message = FailureMessage
    /\ ed.failedActionIndex = 2
    /\ outcome.reported = 2
    /\ Len(bundleInfo.actions) = 5

\* C30: every failure the driver ends with tells the chain id, the failing
\* phase, the description of the failing action and, when an action failed,
\* its index.
C30_FailureIsDescribed ==
    pc = "reverted" =>
        /\ {"chainId", "phase", "description"} \subseteq outcome.parts
        /\ outcome.reported # NoIndex => "actionIndex" \in outcome.parts

(***************************************************************************)
(* The end of propose: dry run, store, relay.                              *)
(***************************************************************************)
IoCount(fn) == Cardinality({k \in 1..Len(io) : io[k].fn = fn})

\* C28: in a dry run propose never calls storeDeploymentConfig or
\* relayProposal, and the ProposalRequest it returns has deploymentConfigId
\* and compilerConfigId undefined.
C28_DryRunSendsNothing ==
    args.isDryRun =>
        /\ ~Called("storeDeploymentConfig")
        /\ ~Called("relayProposal")
        /\ proposalRequest.built =>
             /\ proposalRequest.deploymentConfigId = "undefined"
             /\ proposalRequest.compilerConfigId = "undefined"

\* A dry run over networks with actions returned its request.
C28_Witness ==
    /\ args.isDryRun
    /\ proposePc = "returned"
    /\ proposalRequest.built
    /\ Len(proposalRequest.chainIds) = 2

\* C29: outside a dry run storeDeploymentConfig is called at most once and
\* relayProposal at most once, the relay only after the store answered; the
\* relayed request carries the id the store answered with as deploymentConfigId
\* and as compilerConfigId; a run that returns a request made both calls; a
\* failed store leaves nothing relayed.
C29_StoreThenRelay ==
    ~args.isDryRun =>
        /\ IoCount("storeDeploymentConfig") <= 1
        /\ IoCount("relayProposal") <= 1
        /\ \A k \in 1..Len(io) :
             io[k].fn = "relayProposal" =>
                \E j \in 1..(k - 1) :
                    /\ io[j].fn = "storeDeploymentConfig"
                    /\ io[j].arg \in ContentIds
                    /\ io[k].arg.deploymentConfigId = io[j].arg
                    /\ io[k].arg.compilerConfigId = io[j].arg
        /\ (proposePc = "returned" /\ proposalRequest.built) =>
             /\ IoCount("storeDeploymentConfig") = 1
             /\ IoCount("relayProposal") = 1
        /\ thrown = "store failed" => ~Called("relayProposal")

\* A run that stored the config, got contentB, relayed the request and returned.
C29_Witness ==
    /\ ~args.isDryRun
    /\ proposePc = "returned"
    /\ proposalRequest.built
    /\ io[Len(io)].fn = "relayProposal"
    /\ io[Len(io)].arg.deploymentConfigId = "contentB"
    /\ io[Len(io) - 1] = Call("storeDeploymentConfig", "contentB")

(***************************************************************************)
(* The chains of a ProposalRequest and the leaves of the tree.             *)
(***************************************************************************)
\* The leaves of the tree that belong to a chain, and its APPROVE leaves.
LeavesOf(chainId) ==
    {k \in 1..Len(merkleTree.leavesWithProofs) :
        merkleTree.leavesWithProofs[k].leaf.chainId = chainId}

ApproveLeavesOf(chainId) ==
    {k \in LeavesOf(chainId) : merkleTree.leavesWithProofs[k].leaf.leafType = "APPROVE"}

MultipleApprovalLeaves == "Found multiple approval leaves"

\* C32: every chain of the ProposalRequest has exactly one APPROVE leaf in the
\* tree; projectDeployments has one entry per chain of chainIds, in the same
\* order, each with the root of the tree as deploymentId; propose throws, and
\* builds no request, when a network with actions has more than one APPROVE leaf.
C32_OneApprovalPerChain ==
    /\ proposalRequest.built =>
         /\ Len(proposalRequest.projectDeployments) = Len(proposalRequest.chainIds)
         /\ \A k \in 1..Len(proposalRequest.chainIds) :
              /\ Cardinality(ApproveLeavesOf(proposalRequest.chainIds[k])) = 1
              /\ proposalRequest.projectDeployments[k].chainId = proposalRequest.chainIds[k]
              /\ proposalRequest.projectDeployments[k].deploymentId = merkleTree.root
              /\ proposalRequest.tree.root = merkleTree.root
    /\ (\E k \in WithActions :
            Cardinality(ApproveLeavesOf(Number(networkConfigArray[k].chainId))) > 1) =>
         /\ ~proposalRequest.built
         /\ proposePc \in {"finish", "relay", "returned", "threw"} => thrown # ""
         /\ proposePc \notin {"finish", "relay", "returned"}
    /\ thrown = MultipleApprovalLeaves =>
         \E k \in WithActions :
            Cardinality(ApproveLeavesOf(Number(networkConfigArray[k].chainId))) > 1

\* A request over two chains, each with its one APPROVE leaf.
C32_Witness ==
    /\ proposalRequest.built
    /\ Len(proposalRequest.chainIds) = 2
    /\ Len(proposalRequest.projectDeployments) = 2
    /\ proposalRequest.projectDeployments[2].chainId = proposalRequest.chainIds[2]

NothingOnAnyChain ==
    \A k \in 1..Len(networkConfigArray) : networkConfigArray[k].actionInputs = 0

\* C37: when every network has an empty action list propose returns its empty
\* result after buildNetworkConfigArray and does nothing else: no tree, no
\* simulation, no prompt, no store, no relay; when some network has actions
\* propose goes on to build the tree and returns only with a request.
C37_EmptyProposalDoesNothing ==
    /\ (NothingOnAnyChain /\ proposePc # "start") =>
         /\ proposePc = "returned"
         /\ thrown = ""
         /\ io = <<Call("buildNetworkConfigArray", 0)>>
         /\ merkleTree = NoTree
         /\ gasEstimates = <<>>
         /\ ~proposalRequest.built
    /\ (~NothingOnAnyChain /\ proposePc \notin {"start", "build"}) =>
         Called("makeSphinxMerkleTree")
    /\ (~NothingOnAnyChain /\ proposePc = "returned") => proposalRequest.built

\* Two networks without actions: propose returned its empty result.
C37_Witness ==
    /\ NothingOnAnyChain
    /\ Len(networkConfigArray) = 2
    /\ proposePc = "returned"
    /\ ~args.confirm
    /\ ~args.isDryRun

\* C38: with confirm or isDryRun set the prompt is never invoked; with neither
\* set it is invoked at most once, with the preview, before anything is stored
\* or relayed, exactly once in a run that returns a request, and a rejected
\* prompt leaves nothing stored and nothing relayed.
C38_PromptBeforeSending ==
    /\ (args.confirm \/ args.isDryRun) => ~Called("prompt")
    /\ (~args.confirm /\ ~args.isDryRun) =>
         /\ IoCount("prompt") <= 1
         /\ \A k \in 1..Len(io) :
              io[k].fn \in {"storeDeploymentConfig", "relayProposal"} =>
                 \E j \in 1..(k - 1) : io[j] = Call("prompt", "preview")
         /\ (proposePc = "returned" /\ proposalRequest.built) => IoCount("prompt") = 1
         /\ thrown = "prompt rejected" =>
              /\ io[Len(io)].fn = "prompt"
              /\ ~Called("storeDeploymentConfig")
              /\ ~Called("relayProposal")

\* The user confirmed the preview and the proposal was stored and relayed.
C38_Witness ==
    /\ ~args.confirm
    /\ ~args.isDryRun
    /\ proposePc = "returned"
    /\ IoCount("prompt") = 1
    /\ Called("relayProposal")

(***************************************************************************)
(* The batch loop and the auth leaves.                                     *)
(***************************************************************************)
\* C34: an iteration of the batch loop that stays in the loop has submitted a
\* batch of at least one action and has moved the progress counter strictly up,
\* over the same list of actions; the counter is below the length of the list
\* whenever an iteration starts, so the loop ends after at most that many
\* iterations.
C34_BatchLoopProgresses ==
    /\ [](pc = "batchLoop" =>
            /\ ba.executed < Len(ba.filteredActions)
            /\ ba.executed >= 0)
    /\ [][(pc = "batchLoop" /\ pc' = "batchLoop") =>
            /\ ba'.executed > ba.executed
            /\ ba'.filteredActions = ba.filteredActions
            /\ Len(calls') = Len(calls) + 1
            /\ IsBatch(Last(calls'))
            /\ Len(Last(calls').indices) >= 1
            /\ Len(Last(calls').indices) = ba'.executed - ba.executed]_vars

\* The loop is in its third iteration.
C34_Witness ==
    /\ pc = "batchLoop"
    /\ ba.executed = 2
    /\ Len(ba.filteredActions) = 3
    /\ Len(calls) >= 2
    /\ Len(Last(calls).indices) = 1

AuthFunctions ==
    {"setup", "propose", "upgradeManagerAndAuthImpl", "approveDeployment",
     "cancelActiveDeployment"}

IsAuthCall(c) == c.fn \in AuthFunctions

\* The auth leaves submitted on the selected network, as indices of leaves.
SubmittedLeaves ==
    LET authCalls == SelectSeq(calls, IsAuthCall)
    IN  [k \in 1..Len(authCalls) |->
            (CHOOSE l \in 1..Len(bundleInfo.authLeafs) :
                LeafFunction(bundleInfo.authLeafs[l].leafTypeEnum) = authCalls[k].fn) - 1]

ExecutionEntered ==
    \/ pc \in {"batchStart", "batchLoop", "afterInitial", "afterSetStorage"}
    \/ \E k \in 1..Len(calls) :
         calls[k].fn \in {"claimDeployment", "executeInitialActions", "initiateUpgrade",
                          "setStorage", "finalizeUpgrade"}

\* C35: the auth leaves are submitted in array order, starting with the leaf
\* whose index is the leafsExecuted read from the auth contract: no leaf below
\* it is submitted and none from it on is left out; the execution phase is
\* entered after auth leaves only if the last of them was a successful
\* approveDeployment, and without any only if the deployment was not EMPTY.
C35_AuthLeavesFromLeafsExecuted ==
    /\ \A k \in 1..Len(SubmittedLeaves) :
         /\ SubmittedLeaves[k] >= dn.leafsExecuted
         /\ SubmittedLeaves[k] = dn.leafsExecuted + k - 1
         /\ bundleInfo.authLeafs[SubmittedLeaves[k] + 1].index = SubmittedLeaves[k]
    /\ pc = "authLeafs" =>
         Len(SubmittedLeaves) = IF dn.i > dn.leafsExecuted THEN dn.i - dn.leafsExecuted ELSE 0
    /\ (pc = "execute" /\ Len(bundleInfo.authLeafs) > dn.leafsExecuted
           /\ Len(SubmittedLeaves) > 0) =>
         Len(SubmittedLeaves) = Len(bundleInfo.authLeafs) - dn.leafsExecuted
    /\ ExecutionEntered =>
         IF Len(SubmittedLeaves) > 0
         THEN LET approval == SelectSeq(calls, IsAuthCall)[Len(SubmittedLeaves)]
              IN  approval.fn = "approveDeployment" /\ approval.ok
         ELSE deployments(chain, getDeploymentId(bundleInfo)).status # "EMPTY"

\* A resumed approval: the first leaf was executed before, the driver submitted
\* the second and the third and went on to execute.
C35_Witness ==
    /\ dn.leafsExecuted = 1
    /\ SubmittedLeaves = <<1, 2>>
    /\ ExecutionEntered

(***************************************************************************)
(* monitorExecution.                                                       *)
(***************************************************************************)
MonitorEnded == monitor.pc \in {"returned", "threw"}

\* C31: monitorExecution ends by returning the final deployment transaction
\* hash, and then the final status is COMPLETED, or by throwing; it never
\* returns without a hash.
C31_ReturnsHashOrThrows ==
    monitor.pc = "returned" =>
        /\ monitor.result = "finalDeploymentTxnHash"
        /\ monitor.bundleState.status = "COMPLETED"

\* C39: monitorExecution sleeps and polls only on a fetched status of
\* APPROVED; every iteration ends by taking the state the manager holds then;
\* an iteration on a status other than APPROVED leaves the loop, one on
\* APPROVED throws the insufficient-funds error or goes to sleep; and once the
\* status on the chain has left APPROVED for good the function ends.
C39_PollsWhileApproved ==
    /\ [](monitor.pc \in {"sleep", "refetch"} => monitor.bundleState.status = "APPROVED")
    /\ [][(monitor.pc = "refetch" /\ monitor' # monitor) =>
            /\ monitor'.bundleState = bundles
            /\ monitor'.pc = "while"]_monitorVars
    /\ [][(monitor.pc = "while" /\ monitor' # monitor) =>
            IF monitor.bundleState.status # "APPROVED"
            THEN monitor'.pc \in {"retrieve", "returned", "threw"}
            ELSE \/ monitor'.pc = "sleep"
                 \/ monitor'.pc = "threw" /\ monitor'.thrown = InsufficientFunds]_monitorVars
    /\ (<>[](bundles.status # "APPROVED")) => <>MonitorEnded

\* The monitor slept on an approved bundle that the executor completed
\* meanwhile, and is about to fetch the state again.
C39_Witness ==
    /\ monitor.pc = "refetch"
    /\ monitor.bundleState = [status |-> "APPROVED", actionsExecuted |-> 1]
    /\ bundles = [status |-> "COMPLETED", actionsExecuted |-> 2]

(***************************************************************************)
(* postExecutionActions.                                                   *)
(***************************************************************************)
PostCalled(fn) == {k \in 1..Len(post.io) : post.io[k].fn = fn}

OwnerCalls ==
    PostCalled("getOwnerWithdrawableAmount") \cup PostCalled("withdrawOwnerETH")
        \cup PostCalled("renounceOwnership") \cup PostCalled("transferOwnership")

OwnershipCalls == PostCalled("renounceOwnership") \cup PostCalled("transferOwnership")

PastOwnership == post.pc \in {"artifacts", "returned"}

\* C40: owner actions are performed only when the signer is the project owner
\* that was read; the funds are withdrawn exactly when the withdrawable balance
\* is above zero, and before the ownership changes; the ownership changes
\* exactly when a new owner is given that differs from the current one, by
\* renounceOwnership for the zero address and by transferOwnership to the new
\* owner otherwise; the deployment artifacts are written as the last call of
\* every run that returns.
C40_OwnerActionsInOrder ==
    /\ post.currProjectOwner # "" /\ post.signer # post.currProjectOwner => OwnerCalls = {}
    /\ PostCalled("withdrawOwnerETH") # {} => post.ownerBalance > 0
    /\ Cardinality(PostCalled("withdrawOwnerETH")) <= 1
    /\ Cardinality(OwnershipCalls) <= 1
    /\ \A w \in PostCalled("withdrawOwnerETH") : \A o \in OwnershipCalls : w < o
    /\ \A o \in OwnershipCalls :
         /\ post.newProjectOwner # "undefined"
         /\ post.newProjectOwner # post.currProjectOwner
         /\ post.io[o] = IF post.newProjectOwner = AddressZero
                         THEN PostCall("renounceOwnership", "")
                         ELSE PostCall("transferOwnership", post.newProjectOwner)
    /\ (PastOwnership /\ post.signer = post.currProjectOwner) =>
         /\ post.ownerBalance > 0 => PostCalled("withdrawOwnerETH") # {}
         /\ (post.newProjectOwner # "undefined"
                /\ post.newProjectOwner # post.currProjectOwner) => OwnershipCalls # {}
    /\ \A a \in PostCalled("createDeploymentArtifacts") : a = Len(post.io)
    /\ post.pc = "returned" =>
         post.io[Len(post.io)] = PostCall("createDeploymentArtifacts", "finalDeploymentTxnHash")

\* The owner withdrew the leftover funds, then renounced the ownership, and
\* the artifacts were written last.
C40_Witness ==
    /\ post.pc = "returned"
    /\ post.signer = post.currProjectOwner
    /\ PostCalled("withdrawOwnerETH") = {3}
    /\ PostCalled("renounceOwnership") = {4}
    /\ PostCalled("createDeploymentArtifacts") = {Len(post.io)}

(***************************************************************************)
(* Reference names within a run of the user's script.                      *)
(***************************************************************************)
NoDuplicates(seq) == \A k, l \in 1..Len(seq) : seq[k] = seq[l] => k = l

\* A call of _sphinxDeployContract inside a run.
Deploying == script.sphinxModifierEnabled /\ sphinxDeployContract

\* C33: the recorded referenceNames never hold a name twice; during a run they
\* are the names deployed in this run, so the names of an earlier run are gone;
\* _sphinxDeployContract reverts for a used reference name exactly for the
\* names deployed in this run, and then keeps nothing the run recorded; a
\* reference name is deployed only if it was not deployed in this run.
C33_ReferenceNamesUnique ==
    /\ [](NoDuplicates(script.referenceNames))
    /\ [](script.pc = "running" =>
            /\ Len(script.referenceNames) = Cardinality(script.thisRun)
            /\ \A n \in ReferenceNames :
                 arrayContainsString(script.referenceNames, n) <=> n \in script.thisRun)
    /\ [][Deploying =>
            /\ script'.last.outcome = "duplicate" =>
                 /\ script'.last.referenceName \in script.thisRun
                 /\ ScriptStorage(script') = script.saved
            /\ script'.last.referenceName \in script.thisRun =>
                 script'.last.outcome \in {"duplicate", "callerMode"}
            /\ script'.last.outcome = "deployed" =>
                 /\ script'.last.referenceName \notin script.thisRun
                 /\ script'.referenceNames =
                        Append(script.referenceNames, script'.last.referenceName)]_scriptVars

\* The first run deployed A and B.  The second run deployed B again, which the
\* emptied list allowed, and was then ended by the revert for deploying B twice,
\* which left the list of the first run in the storage.
C33_Witness ==
    /\ script.pc = "idle"
    /\ script.runs = 2
    /\ script.last.outcome = "duplicate"
    /\ script.last.referenceName = "B"
    /\ script.thisRun = {"B"}
    /\ script.referenceNames = <<"A", "B">>
====
